---- MODULE Spec2Model ----
(***************************************************************************)
(* Road network construction: the interactive road-build tool (roadbuild), *)
(* its three validation rules (compatible, check_angle, check_intersect),  *)
(* and the world command queue applied by Egregoria::tick.                  *)
(*                                                                         *)
(* Geometry is exact integer arithmetic.  A position is [x, y, z]; x and y *)
(* are in length units, z is stored in QUARTER units (z = 20 is 5.0 units) *)
(* so that the midpoint of a road and the mean elevation of two endpoints  *)
(* stay integers.  Distances are compared squared.                         *)
(***************************************************************************)
EXTENDS Integers, Sequences, FiniteSets, TLC

VARIABLES
    build_state,    \* RoadBuildResource.build_state
    height_offset,  \* RoadBuildResource.height_offset, in length units
    map,            \* the simulation's Map: intersections, roads, id counter
    commands,       \* WorldCommands queue filled by the gui, emptied by tick
    received,       \* uiworld.received_commands(): what the last tick applied
    pc,             \* position of the game loop: "gui" or "tick"
    pushed,         \* history: every command ever pushed, in push order
    applied,        \* history: every command application, in application order
    fr,             \* what the last roadbuild frame read and computed
    call,           \* a single call of one of the validation functions
    intersection,   \* one Intersection: its road list, turns and turn policy
    roads,          \* the Roads store: the roads that can meet at it
    op,             \* the last operation made on the intersection
    connect_state,  \* RoadGraphSynchronize.connect_state
    show_connect,   \* the preview line entity: hidden or not, and where it starts
    selected,       \* the SelectedEntity resource
    world,          \* the entities that carry an IntersectionComponent
    rg,             \* the RoadGraph resource: nodes, edges and positions
    sync            \* the last run of RoadGraphSynchronize: keys and graph calls

\* the connect tool of the road graph editor and the world it works on
rgsvars == <<connect_state, show_connect, selected, world, rg, sync>>

\* the intersection and the road store; the connect tool is untouched by
\* their operations
netvars == <<intersection, roads, op, rgsvars>>

\* the road-build tool, the map and the command queue; the connect tool is
\* untouched by their steps
guivars == <<build_state, height_offset, map, commands, received, pc, pushed, applied, fr, call,
             rgsvars>>

vars == <<build_state, height_offset, map, commands, received, pc, pushed, applied, fr, call,
          intersection, roads, op, connect_state, show_connect, selected, world, rg, sync>>

\* the entities that can come to carry an IntersectionComponent, in the
\* order they are created, and a selectable entity that never does; the
\* NodeID of an intersection entity is written like the entity
Slots == <<"a", "b", "c">>
OtherEntity == "t"
NoEntity == "None"

Inactive == [tag |-> "Inactive", e |-> NoEntity]
Unselected == [tag |-> "Unselected", e |-> NoEntity]
First(e) == [tag |-> "First", e |-> e]

NoRun == [phase |-> "run", pressed |-> {}, calls |-> <<>>]

\* RoadGraphSynchronize::new on a world without intersections
InitSync ==
    /\ connect_state = Inactive
    /\ show_connect = [hide |-> FALSE, at |-> NoEntity]
    /\ selected = NoEntity
    /\ world = [e \in {Slots[k] : k \in DOMAIN Slots} |-> "unborn"]
    /\ rg = [nodes |-> {}, edges |-> {},
             pos |-> [e \in {Slots[k] : k \in DOMAIN Slots} |-> "origin"]]
    /\ sync = NoRun

-----------------------------------------------------------------------------
(* Bounds of the model *)

\* commands the road-build tool may push in one behaviour
MaxCmds == 1
\* commands pushed in one behaviour of the queue specification
MaxQueued == 2
\* presses of UpElevation above the ground the user makes (5 units each)
MaxUp == 1

-----------------------------------------------------------------------------
(* The places of the world the cursor can point at *)

SiteXY ==
    << [x |-> -60, y |-> 0],    \* 1: an intersection, west end of road 1
       [x |-> 0,   y |-> 0],    \* 2: an intersection, east end of road 1
       [x |-> -30, y |-> 0],    \* 3: the middle of road 1
       [x |-> 0,   y |-> 60],   \* 4: open ground, north of site 2
       [x |-> 3,   y |-> 4],    \* 5: open ground 5 units from site 2
       [x |-> -60, y |-> 10],   \* 6: open ground, 9.5 degrees off road 1 seen from site 2
       [x |-> -30, y |-> -40],  \* 7: open ground south of road 1
       [x |-> -30, y |-> 40] >> \* 8: open ground north of road 1

AllSites == DOMAIN SiteXY
\* the sites the cursor visits in the long-running specification
Sites == {1, 2, 3, 4}

XY(x, y) == [x |-> x, y |-> y]
P3(xy, z) == [x |-> xy.x, y |-> xy.y, z |-> z]
PosXY(p) == [x |-> p.x, y |-> p.y]
IsSiteXY(xy) == \E s \in AllSites : SiteXY[s] = xy
SiteOf(xy) == CHOOSE s \in AllSites : SiteXY[s] = xy

Abs(n) == IF n < 0 THEN -n ELSE n
Sq(n) == n * n
Dot(u, v) == u.x * v.x + u.y * v.y
Sub(a, b) == [x |-> a.x - b.x, y |-> a.y - b.y]

\* 16 * (3D distance)^2, z being in quarter units
Dist16(p, q) == 16 * Sq(p.x - q.x) + 16 * Sq(p.y - q.y) + Sq(p.z - q.z)

\* Vec3::distance(p, q) < d, for d given in tenths of a unit
CloserThanTenths(p, q, tenths) == 100 * Dist16(p, q) < 16 * Sq(tenths)

\* Vec3::is_close: within d of the point
is_close(p, q, tenths) == CloserThanTenths(p, q, tenths)

-----------------------------------------------------------------------------
(* MapProject and ProjectKind *)

NoPos == [x |-> 0, y |-> 0, z |-> 0]
NoProj == [kind |-> "None", id |-> 0, pos |-> NoPos]
Ground(pos) == [kind |-> "Ground", id |-> 0, pos |-> pos]
Inter(i, pos) == [kind |-> "Inter", id |-> i, pos |-> pos]
Road(r, pos) == [kind |-> "Road", id |-> r, pos |-> pos]
Building(b, pos) == [kind |-> "Building", id |-> b, pos |-> pos]

\* ProjectKind equality (x != start): same variant, same identity
SameKind(p, q) == p.kind = q.kind /\ p.id = q.id

-----------------------------------------------------------------------------
(* The Map.  Intersections are identified by the site they stand on, roads *)
(* by a number that is never reused.                                       *)

HasInter(m, i) == i \in DOMAIN m.inters
HasRoad(m, r) == r \in DOMAIN m.roads
InterPos(m, i) == P3(SiteXY[i], m.inters[i])

\* Road.points.first() / Road.points.last()
PointsFirst(m, r) == InterPos(m, m.roads[r].src)
PointsLast(m, r) == InterPos(m, m.roads[r].dst)

\* Intersection.roads
InterRoads(m, i) == {r \in DOMAIN m.roads : m.roads[r].src = i \/ m.roads[r].dst = i}

\* Road.dir_from(i): where the road heads when leaving intersection i
\* (unnormalised): towards the elbow of a curved road, else the other end
dir_from(m, r, i) ==
    LET rd == m.roads[r]
        other == IF rd.src = i THEN rd.dst ELSE rd.src
        tgt == IF rd.via # 0 THEN SiteXY[rd.via] ELSE SiteXY[other]
    IN  Sub(tgt, SiteXY[i])

\* LanePatternBuilder.width(): one driving lane each way, no sidewalk
patwidth == 16

\* Road.interface_from(i), in tenths: the default max(width * 0.8, 9.0)
interface_from(m, r, i) ==
    IF patwidth * 8 > 90 THEN patwidth * 8 ELSE 90

\* xy lies strictly inside the straight centre line of road r
OnRoad(m, r, xy) ==
    LET a == SiteXY[m.roads[r].src]
        b == SiteXY[m.roads[r].dst]
        u == Sub(b, a)
        w == Sub(xy, a)
    IN  /\ m.roads[r].via = 0
        /\ u.x * w.y - u.y * w.x = 0
        /\ Dot(u, w) > 0
        /\ Dot(u, w) < Dot(u, u)

\* elevation of the centre line of road r above xy (xy on the road)
RoadZAt(m, r, xy) ==
    LET a == PointsFirst(m, r)
        b == PointsLast(m, r)
        u == Sub(PosXY(b), PosXY(a))
        w == Sub(xy, PosXY(a))
    IN  a.z + ((b.z - a.z) * Dot(u, w)) \div Dot(u, u)

\* Map.project(pos, tolerance, filter): the intersection standing at the
\* point, else the road whose centre line passes through it, else ground
project(m, pos) ==
    LET xy == PosXY(pos) IN
    IF IsSiteXY(xy) /\ HasInter(m, SiteOf(xy))
    THEN Inter(SiteOf(xy), InterPos(m, SiteOf(xy)))
    ELSE IF \E r \in DOMAIN m.roads : OnRoad(m, r, xy)
         THEN LET r == CHOOSE q \in DOMAIN m.roads :
                          /\ OnRoad(m, q, xy)
                          /\ \A o \in DOMAIN m.roads : OnRoad(m, o, xy) => q <= o
              IN  Road(r, P3(xy, RoadZAt(m, r, xy)))
         ELSE Ground(pos)

-----------------------------------------------------------------------------
(* compatible (roadbuild.rs) *)

\* the lookup map.roads()[id_road] of compatible fails (the frame panics)
compatible_panics(m, x, y) ==
    /\ ~CloserThanTenths(x.pos, y.pos, 100)
    /\ \/ x.kind = "Inter" /\ y.kind = "Road" /\ ~HasRoad(m, y.id)
       \/ x.kind = "Road" /\ y.kind = "Inter" /\ ~HasRoad(m, x.id)

compatible_NoMinDistance(m, x, y) ==
    CASE x.kind = "Ground" /\ y.kind \in {"Ground", "Road", "Inter"} -> TRUE
      [] x.kind \in {"Road", "Inter"} /\ y.kind = "Ground" -> TRUE
      [] x.kind = "Road" /\ y.kind = "Road" -> x.id # y.id
      [] x.kind = "Inter" /\ y.kind = "Inter" -> x.id # y.id
      [] x.kind = "Inter" /\ y.kind = "Road" ->
            /\ HasRoad(m, y.id)
            /\ m.roads[y.id].src # x.id
            /\ m.roads[y.id].dst # x.id
      [] x.kind = "Road" /\ y.kind = "Inter" ->
            /\ HasRoad(m, x.id)
            /\ m.roads[x.id].src # y.id
            /\ m.roads[x.id].dst # y.id
      [] OTHER -> FALSE

compatible_SrcOnly(m, x, y) ==
    IF CloserThanTenths(x.pos, y.pos, 100) THEN FALSE
    ELSE CASE x.kind = "Ground" /\ y.kind \in {"Ground", "Road", "Inter"} -> TRUE
           [] x.kind \in {"Road", "Inter"} /\ y.kind = "Ground" -> TRUE
           [] x.kind = "Road" /\ y.kind = "Road" -> x.id # y.id
           [] x.kind = "Inter" /\ y.kind = "Inter" -> x.id # y.id
           [] x.kind = "Inter" /\ y.kind = "Road" ->
                 HasRoad(m, y.id) /\ m.roads[y.id].src # x.id
           [] x.kind = "Road" /\ y.kind = "Inter" ->
                 HasRoad(m, x.id) /\ m.roads[x.id].src # y.id
           [] OTHER -> FALSE

compatible(m, x, y) ==
    IF CloserThanTenths(x.pos, y.pos, 100) THEN FALSE
    ELSE CASE x.kind = "Ground" /\ y.kind \in {"Ground", "Road", "Inter"} -> TRUE
           [] x.kind \in {"Road", "Inter"} /\ y.kind = "Ground" -> TRUE
           [] x.kind = "Road" /\ y.kind = "Road" -> x.id # y.id
           [] x.kind = "Inter" /\ y.kind = "Inter" -> x.id # y.id
           [] x.kind = "Inter" /\ y.kind = "Road" ->
                 /\ HasRoad(m, y.id)
                 /\ m.roads[y.id].src # x.id
                 /\ m.roads[y.id].dst # x.id
           [] x.kind = "Road" /\ y.kind = "Inter" ->
                 /\ HasRoad(m, x.id)
                 /\ m.roads[x.id].src # y.id
                 /\ m.roads[x.id].dst # y.id
           [] OTHER -> FALSE

-----------------------------------------------------------------------------
(* check_angle (roadbuild.rs) *)

IsZero(v) == v.x = 0 /\ v.y = 0

AngleAtLeast_RailExact(v, dir, is_rail) ==
    IF IsZero(v) \/ IsZero(dir) THEN FALSE
    ELSE IF is_rail THEN v.x * dir.y - v.y * dir.x = 0
    ELSE \/ Dot(v, dir) <= 0
         \/ 4 * Sq(Dot(v, dir)) <= 3 * Dot(v, v) * Dot(dir, dir)

\* v.angle(dir).abs() >= max_turn_angle, where max_turn_angle is 0 for rail
\* and 30 degrees otherwise.  |angle| >= 30 degrees iff cos <= sqrt(3)/2.
\* Normalising a zero vector gives NaN, and every comparison with NaN fails.
AngleAtLeast(v, dir, is_rail) ==
    IF IsZero(v) \/ IsZero(dir) THEN FALSE
    ELSE IF is_rail THEN TRUE
    ELSE \/ Dot(v, dir) <= 0
         \/ 4 * Sq(Dot(v, dir)) <= 3 * Dot(v, v) * Dot(dir, dir)

\* project_segment_dir on a straight road: the foot of pos on the centre
\* line (pos is on it already) and the direction of the segment
RoadDir(m, r) == Sub(SiteXY[m.roads[r].dst], SiteXY[m.roads[r].src])
Neg(v) == [x |-> -v.x, y |-> -v.y]

check_angle(m, from, to, is_rail) ==
    CASE from.kind = "Inter" ->
            /\ HasInter(m, from.id)
            /\ \E r \in InterRoads(m, from.id) :
                  AngleAtLeast(dir_from(m, r, from.id),
                               Sub(to, SiteXY[from.id]), is_rail)
      [] from.kind = "Road" ->
            /\ HasRoad(m, from.id)
            /\ AngleAtLeast(RoadDir(m, from.id), Sub(to, PosXY(from.pos)), is_rail)
            /\ AngleAtLeast(Neg(RoadDir(m, from.id)), Sub(to, PosXY(from.pos)), is_rail)
      [] OTHER -> TRUE

-----------------------------------------------------------------------------
(* check_intersect (roadbuild.rs) *)

Ent(kind, id) == [kind |-> kind, id |-> id]
EntOf(p) == Ent(p.kind, p.id)

check_intersect_RoadsIgnored(m, hits, zsum, start, end) ==
    \E x \in hits :
        /\ x.kind # "Road"
        /\ x # EntOf(start)
        /\ x # EntOf(end)

check_intersect_IntersIgnored(m, hits, zsum, start, end) ==
    \E x \in hits :
        /\ x.kind = "Road"
        /\ ~(Abs(2 * PointsFirst(m, x.id).z - zsum) > 8)
        /\ ~(Abs(2 * PointsLast(m, x.id).z - zsum) > 8)
        /\ ~(start.kind = "Inter" /\
                 (m.roads[x.id].src = start.id \/ m.roads[x.id].dst = start.id))
        /\ ~(end.kind = "Inter" /\
                 (m.roads[x.id].src = end.id \/ m.roads[x.id].dst = end.id))
        /\ x # EntOf(start)
        /\ x # EntOf(end)

\* hits is what spatial_map().query(shape, ROAD | INTER) returns; zsum is
\* twice the elevation z passed by the caller (the sum of both ends)
check_intersect(m, hits, zsum, start, end) ==
    \E x \in hits :
        /\ x.kind = "Road" =>
              /\ ~(Abs(2 * PointsFirst(m, x.id).z - zsum) > 8)
              /\ ~(Abs(2 * PointsLast(m, x.id).z - zsum) > 8)
              /\ ~(start.kind = "Inter" /\
                       (m.roads[x.id].src = start.id \/ m.roads[x.id].dst = start.id))
              /\ ~(end.kind = "Inter" /\
                       (m.roads[x.id].src = end.id \/ m.roads[x.id].dst = end.id))
        /\ x # EntOf(start)
        /\ x # EntOf(end)

-----------------------------------------------------------------------------
(* The spatial index query made for a candidate from p to q *)

AllEnts(m) == {Ent("Inter", i) : i \in DOMAIN m.inters}
                 \cup {Ent("Road", r) : r \in DOMAIN m.roads}

\* xy lies on the closed straight segment from a to b
OnSegment(a, b, xy) ==
    LET u == Sub(b, a)
        w == Sub(xy, a)
    IN  /\ u.x * w.y - u.y * w.x = 0
        /\ Dot(u, w) >= 0
        /\ Dot(u, w) <= Dot(u, u)

\* the entities whose footprint contains the point xy
Touching(m, xy) ==
    {Ent("Inter", i) : i \in {j \in DOMAIN m.inters : SiteXY[j] = xy}}
    \cup {Ent("Road", r) : r \in {q \in DOMAIN m.roads :
              \/ OnRoad(m, q, xy)
              \/ SiteXY[m.roads[q].src] = xy
              \/ SiteXY[m.roads[q].dst] = xy}}

\* what any footprint from p to q is certain to overlap: the entities under
\* its two ends and, for a straight one, those under its centre line
MustHit(m, p, q, straight) ==
    Touching(m, p) \cup Touching(m, q)
    \cup (IF straight
          THEN UNION {Touching(m, SiteXY[s]) : s \in {t \in AllSites : OnSegment(p, q, SiteXY[t])}}
          ELSE {})

\* spatial_map().query(shape, ROAD | INTER): the certain overlaps and those
\* (extra) that depend on widths and curvature
Query(must, extra, m) == must \cup (extra \cap AllEnts(m))

-----------------------------------------------------------------------------
(* BuildState *)

NoXY == [x |-> 0, y |-> 0]
Hover == [tag |-> "Hover", a |-> NoProj, b |-> NoProj, ip |-> NoXY]
Start(p) == [tag |-> "Start", a |-> p, b |-> NoProj, ip |-> NoXY]
StartInterp(p) == [tag |-> "StartInterp", a |-> p, b |-> NoProj, ip |-> NoXY]
Connection(src, dst) == [tag |-> "Connection", a |-> src, b |-> dst, ip |-> NoXY]
Interpolation(ip, p) == [tag |-> "Interpolation", a |-> p, b |-> NoProj, ip |-> ip]

Anchored == {"Start", "StartInterp", "Connection", "Interpolation"}
Committing == {"Start", "Connection", "Interpolation"}

\* the two ends of the candidate of build state bs with target cur
EndA(bs, cur) == bs.a
EndB(bs, cur) == IF bs.tag = "Connection" THEN bs.b ELSE cur

\* the point the candidate leaves both ends towards
Elbow(bs, cur) ==
    CASE bs.tag = "Connection" -> PosXY(cur.pos)
      [] bs.tag = "Interpolation" -> bs.ip
      [] OTHER -> NoXY

-----------------------------------------------------------------------------
(* The validity of the current candidate (roadbuild, the is_valid match) *)

ZSum(p, q) == p.pos.z + q.pos.z

is_valid_match_NoIntersect(m, bs, cur, is_rail, hits, steep) ==
    CASE bs.tag = "Hover" -> cur.kind # "Building"
      [] bs.tag = "StartInterp" /\ cur.kind = "Ground" ->
            /\ compatible(m, cur, bs.a)
            /\ check_angle(m, bs.a, PosXY(cur.pos), is_rail)
      [] bs.tag = "StartInterp" /\ cur.kind \in {"Inter", "Road"} ->
            compatible(m, bs.a, cur)
      [] bs.tag = "Start" ->
            /\ compatible(m, cur, bs.a)
            /\ check_angle(m, bs.a, PosXY(cur.pos), is_rail)
            /\ check_angle(m, cur, PosXY(bs.a.pos), is_rail)
      [] bs.tag = "Connection" ->
            /\ compatible(m, bs.b, bs.a)
            /\ check_angle(m, bs.a, PosXY(cur.pos), is_rail)
            /\ check_angle(m, bs.b, PosXY(cur.pos), is_rail)
            /\ ~steep
      [] bs.tag = "Interpolation" ->
            /\ compatible(m, cur, bs.a)
            /\ check_angle(m, bs.a, bs.ip, is_rail)
            /\ check_angle(m, cur, bs.ip, is_rail)
            /\ ~steep
      [] OTHER -> TRUE

is_valid_match(m, bs, cur, is_rail, hits, steep) ==
    CASE bs.tag = "Hover" -> cur.kind # "Building"
      [] bs.tag = "StartInterp" /\ cur.kind = "Ground" ->
            /\ compatible(m, cur, bs.a)
            /\ check_angle(m, bs.a, PosXY(cur.pos), is_rail)
      [] bs.tag = "StartInterp" /\ cur.kind \in {"Inter", "Road"} ->
            compatible(m, bs.a, cur)
      [] bs.tag = "Start" ->
            /\ compatible(m, cur, bs.a)
            /\ check_angle(m, bs.a, PosXY(cur.pos), is_rail)
            /\ check_angle(m, cur, PosXY(bs.a.pos), is_rail)
            /\ ~check_intersect(m, hits, ZSum(bs.a, cur), cur, bs.a)
      [] bs.tag = "Connection" ->
            /\ compatible(m, bs.b, bs.a)
            /\ check_angle(m, bs.a, PosXY(cur.pos), is_rail)
            /\ check_angle(m, bs.b, PosXY(cur.pos), is_rail)
            /\ ~steep
            /\ ~check_intersect(m, hits, ZSum(bs.a, bs.b), bs.a, bs.b)
      [] bs.tag = "Interpolation" ->
            /\ compatible(m, cur, bs.a)
            /\ check_angle(m, bs.a, bs.ip, is_rail)
            /\ check_angle(m, cur, bs.ip, is_rail)
            /\ ~steep
            /\ ~check_intersect(m, hits, ZSum(bs.a, cur), bs.a, cur)
      [] OTHER -> TRUE

\* the is_valid match stops in compatible, on map.roads()[id_road] for a
\* road that is no longer in the store (compatible is the first call of
\* every arm that has an anchor)
is_valid_panics(m, bs, cur) ==
    /\ bs.tag \in Anchored
    /\ ~(bs.tag = "StartInterp" /\ cur.kind = "Building")
    /\ compatible_panics(m, EndA(bs, cur), EndB(bs, cur))

\* the projection names a road or an intersection that is not in the map
StaleProj(m, p) ==
    \/ p.kind = "Road" /\ ~HasRoad(m, p.id)
    \/ p.kind = "Inter" /\ ~HasInter(m, p.id)

\* an anchor of the build state names a removed road or intersection
StaleAnchor(m, bs) ==
    /\ bs.tag \in Anchored
    /\ \/ StaleProj(m, bs.a)
       \/ bs.tag = "Connection" /\ StaleProj(m, bs.b)

\* build_args is Some(..): a potential command and a preview exist
has_build_args(bs, cur) ==
    \/ bs.tag = "StartInterp" /\ cur.kind # "Ground"
    \/ bs.tag \in Committing

is_valid_final_IgnoreErr(m, bs, cur, is_rail, hits, geo) ==
    is_valid_match(m, bs, cur, is_rail, hits, geo = "steep")

\* is_valid once the preview is generated: a generate_points error clears it
is_valid_final(m, bs, cur, is_rail, hits, geo) ==
    /\ is_valid_match(m, bs, cur, is_rail, hits, geo = "steep")
    /\ ~(has_build_args(bs, cur) /\ geo = "err")

\* the three rules of the validator, each evaluated on its own for the
\* candidate from EndA to EndB
RuleCompatible(m, bs, cur) == compatible(m, EndA(bs, cur), EndB(bs, cur))

RuleAngle(m, bs, cur, is_rail) ==
    IF bs.tag \in {"Connection", "Interpolation"}
    THEN /\ check_angle(m, EndA(bs, cur), Elbow(bs, cur), is_rail)
         /\ check_angle(m, EndB(bs, cur), Elbow(bs, cur), is_rail)
    ELSE /\ check_angle(m, EndA(bs, cur), PosXY(EndB(bs, cur).pos), is_rail)
         /\ check_angle(m, EndB(bs, cur), PosXY(EndA(bs, cur).pos), is_rail)

RuleNoIntersect(m, bs, cur, hits) ==
    ~check_intersect(m, hits, ZSum(EndA(bs, cur), EndB(bs, cur)),
                     EndA(bs, cur), EndB(bs, cur))

-----------------------------------------------------------------------------
(* World commands and their application (Egregoria::tick) *)

MapMakeConnection(from, to, has_inter, inter, rail, seq) ==
    [kind |-> "MapMakeConnection", from |-> from, to |-> to,
     has_inter |-> has_inter, inter |-> inter, rail |-> rail, seq |-> seq]

\* the intersection an endpoint of a connection resolves to: an existing
\* one, a new one on open ground, or a new one splitting the road it is on
Resolve(m, p) ==
    LET xy == PosXY(p.pos)
        site == IF IsSiteXY(xy) THEN SiteOf(xy) ELSE 0
    IN  CASE p.kind = "Inter" ->
                [ok |-> HasInter(m, p.id), m |-> m, i |-> p.id]
          [] p.kind = "Ground" ->
                IF site = 0 \/ HasInter(m, site)
                THEN [ok |-> FALSE, m |-> m, i |-> 0]
                ELSE [ok |-> TRUE,
                      m |-> [m EXCEPT !.inters = (site :> p.pos.z) @@ m.inters],
                      i |-> site]
          [] p.kind = "Road" ->
                IF site = 0 \/ HasInter(m, site) \/ ~HasRoad(m, p.id)
                THEN [ok |-> FALSE, m |-> m, i |-> 0]
                ELSE IF ~OnRoad(m, p.id, xy)
                THEN [ok |-> FALSE, m |-> m, i |-> 0]
                ELSE LET old == m.roads[p.id]
                         kept == [r \in DOMAIN m.roads \ {p.id} |-> m.roads[r]]
                     IN  [ok |-> TRUE,
                          m |-> [inters |-> (site :> p.pos.z) @@ m.inters,
                                 roads |-> (m.ctr + 1 :> [src |-> old.src, dst |-> site, via |-> 0])
                                           @@ (m.ctr + 2 :> [src |-> site, dst |-> old.dst, via |-> 0])
                                           @@ kept,
                                 ctr |-> m.ctr + 2],
                          i |-> site]
          [] OTHER -> [ok |-> FALSE, m |-> m, i |-> 0]

\* WorldCommand::apply for MapMakeConnection: on failure the map is kept
ApplyCommand(m, c) ==
    LET f == Resolve(m, c.from)
        t == IF f.ok THEN Resolve(f.m, c.to) ELSE f
        via == IF c.has_inter /\ IsSiteXY(c.inter) THEN SiteOf(c.inter) ELSE 0
    IN  IF c.kind # "MapMakeConnection" \/ ~f.ok \/ ~t.ok THEN m
        ELSE IF f.i = t.i THEN m
        ELSE [t.m EXCEPT
                !.roads = (t.m.ctr + 1 :> [src |-> f.i, dst |-> t.i, via |-> via]) @@ t.m.roads,
                !.ctr = t.m.ctr + 1]

TickOrder_Twice(cmds) == cmds \o cmds

\* the order in which tick walks commands.commands
TickOrder(cmds) == cmds

RECURSIVE ApplyAll(_, _)
ApplyAll(m, cmds) ==
    IF cmds = <<>> THEN m ELSE ApplyAll(ApplyCommand(m, Head(cmds)), Tail(cmds))

SeqNos(cmds) == [k \in DOMAIN cmds |-> cmds[k].seq]

\* the entities among hits that neither end of the candidate names
Foreign(hits, start, end) == hits \ {EntOf(start), EntOf(end)}

\* the map once road r is removed from it, nothing else changed
RemoveRoad(m, r) ==
    [m EXCEPT !.roads = [q \in DOMAIN m.roads \ {r} |-> m.roads[q]]]

\* the roads among hits that are connected to neither end of the candidate
\* (not an end themselves, not incident to an end intersection) and lie
\* within one unit of its elevation (zsum is twice that elevation)
Unrelated(m, hits, zsum, start, end) ==
    {r \in DOMAIN m.roads :
        /\ Ent("Road", r) \in hits
        /\ Abs(2 * PointsFirst(m, r).z - zsum) <= 8
        /\ Abs(2 * PointsLast(m, r).z - zsum) <= 8
        /\ \A e \in {start, end} :
              /\ ~(e.kind = "Road" /\ e.id = r)
              /\ ~(e.kind = "Inter" /\ e.id \in {m.roads[r].src, m.roads[r].dst})}

-----------------------------------------------------------------------------
(* One roadbuild frame *)

Tools == {"Hand", "RoadbuildStraight", "RoadbuildCurved"}
is_roadbuild(tool) == tool \in {"RoadbuildStraight", "RoadbuildCurved"}

\* the sets of actions just pressed in one frame
ActSets == {{}, {"Select"}, {"Close"}, {"Close", "Select"},
            {"UpElevation"}, {"DownElevation"}}

Min(a, b) == IF a < b THEN a ELSE b
Max(a, b) == IF a > b THEN a ELSE b

\* the loop over received_commands: a road just placed prepares the next
RECURSIVE ReceivedLoop(_, _, _, _)
ReceivedLoop(m, rec, tool, bs) ==
    IF rec = <<>> THEN bs
    ELSE LET c == Head(rec)
             proj == project(m, c.to.pos)
             nbs == IF c.kind = "MapMakeConnection" /\ proj.kind = "Inter"
                    THEN IF tool = "RoadbuildCurved" THEN StartInterp(proj) ELSE Start(proj)
                    ELSE bs
         IN  ReceivedLoop(m, Tail(rec), tool, nbs)

AfterClose_Always(bs, act) == IF bs.tag # "Hover" THEN Hover ELSE bs

AfterClose(bs, act) == IF "Close" \in act /\ bs.tag # "Hover" THEN Hover ELSE bs

AfterElevation_NoCap(h, act) ==
    LET up == IF "UpElevation" \in act THEN h + 5 ELSE h
    IN  IF "DownElevation" \in act THEN Max(up - 5, 0) ELSE up

AfterElevation(h, act) ==
    LET up == IF "UpElevation" \in act THEN Min(h + 5, 100) ELSE h
    IN  IF "DownElevation" \in act THEN Max(up - 5, 0) ELSE up

\* cur_proj: the projection of the cursor, moved onto the end intersection
\* of a road when within its interface, or plain ground without snapping
CurProj(m, bs, mousepos, nosnapping) ==
    LET p0 == IF bs.tag # "Connection" THEN project(m, mousepos) ELSE Ground(mousepos)
        p1 == IF p0.kind = "Road"
              THEN LET r == p0.id
                       src == m.roads[r].src
                       dst == m.roads[r].dst
                   IN  IF is_close(PointsFirst(m, r), p0.pos,
                                   interface_from(m, r, src) + patwidth * 5)
                       THEN Inter(src, PointsFirst(m, r))
                       ELSE IF is_close(PointsLast(m, r), p0.pos,
                                        interface_from(m, r, dst) + patwidth * 5)
                       THEN Inter(dst, PointsLast(m, r))
                       ELSE p0
              ELSE p0
    IN  IF nosnapping THEN Ground(mousepos) ELSE p1

AfterSelect_Stay(bs, cur, tool, mousepos) ==
    CASE bs.tag = "Hover" /\ cur.kind \in {"Ground", "Road", "Inter"} ->
            IF tool = "RoadbuildCurved" THEN StartInterp(cur) ELSE Start(cur)
      [] bs.tag = "StartInterp" /\ cur.kind = "Ground" ->
            Interpolation(PosXY(mousepos), bs.a)
      [] bs.tag = "StartInterp" /\ cur.kind \in {"Road", "Inter"} ->
            Connection(bs.a, cur)
      [] OTHER -> bs

\* the build state a valid Select press leads to
AfterSelect(bs, cur, tool, mousepos) ==
    CASE bs.tag = "Hover" /\ cur.kind \in {"Ground", "Road", "Inter"} ->
            IF tool = "RoadbuildCurved" THEN StartInterp(cur) ELSE Start(cur)
      [] bs.tag = "StartInterp" /\ cur.kind = "Ground" ->
            Interpolation(PosXY(mousepos), bs.a)
      [] bs.tag = "StartInterp" /\ cur.kind \in {"Road", "Inter"} ->
            Connection(bs.a, cur)
      [] bs.tag \in Committing -> Hover
      [] OTHER -> bs

\* potential_command: the command build_args describes
PotentialCommand(bs, cur, rail, seq) ==
    CASE bs.tag = "Connection" ->
            MapMakeConnection(bs.a, bs.b, TRUE, PosXY(cur.pos), rail, seq)
      [] bs.tag = "Interpolation" ->
            MapMakeConnection(bs.a, cur, TRUE, bs.ip, rail, seq)
      [] OTHER ->
            MapMakeConnection(bs.a, cur, FALSE, NoXY, rail, seq)

NoFrame ==
    [toolrb |-> TRUE, ran |-> FALSE, close |-> FALSE, select |-> FALSE,
     recv |-> FALSE, tag |-> "Hover", tkind |-> "None", valid |-> FALSE,
     compat |-> FALSE, angle |-> FALSE, nointer |-> FALSE, near |-> FALSE,
     rail |-> FALSE, npush |-> 0, changed |-> FALSE,
     geo |-> "ok", unrel |-> {}, valid_wo |-> {}, sole |-> {},
     foreign |-> FALSE, blocking |-> FALSE, stale |-> FALSE, panic |-> FALSE]

\* the run goes on while the tool may still push a command, and for the one
\* frame that sees the last applied commands
Running(budget) == Len(applied) < budget \/ received # <<>>

\* the tool is not a road-build tool: reset and return
FrameOtherTool(tool, budget) ==
    /\ pc = "gui"
    /\ Running(budget)
    /\ ~is_roadbuild(tool)
    /\ build_state' = Hover
    /\ height_offset' = 0
    /\ fr' = [NoFrame EXCEPT !.toolrb = FALSE, !.changed = (build_state # Hover)]
    /\ pc' = "tick"
    /\ UNCHANGED <<map, commands, received, pushed, applied, call, netvars>>

\* inp.unprojected is None: return before anything is read
FrameNoCursor(tool, act, budget) ==
    /\ pc = "gui"
    /\ Running(budget)
    /\ is_roadbuild(tool)
    /\ fr' = [NoFrame EXCEPT !.close = ("Close" \in act), !.select = ("Select" \in act)]
    /\ pc' = "tick"
    /\ UNCHANGED <<build_state, height_offset, map, commands, received, pushed, applied, call,
                   netvars>>

\* the rest of the frame, once the build state bs2 left by the received
\* commands and Close, the target cur and the query result hits are known
FrameBody(tool, mousepos, act, is_rail, geo, bs1, bs2, cur, hits, budget) ==
    \E is_valid \in {is_valid_final(map, bs2, cur, is_rail, hits, geo)} :
    \E bs3 \in {IF is_valid /\ "Select" \in act
                 THEN AfterSelect(bs2, cur, tool, mousepos) ELSE bs2} :
    LET push == is_valid /\ "Select" \in act /\ bs2.tag \in Committing
        cmd == PotentialCommand(bs2, cur, is_rail, Len(pushed) + 1)
        unrel == IF bs2.tag \in Committing
                 THEN Unrelated(map, hits, ZSum(EndA(bs2, cur), EndB(bs2, cur)),
                                EndA(bs2, cur), EndB(bs2, cur))
                 ELSE {}
    IN  /\ push => Len(pushed) < budget
        /\ build_state' = bs3
        /\ height_offset' = AfterElevation(height_offset, act)
        /\ commands' = IF push THEN Append(commands, cmd) ELSE commands
        /\ pushed' = IF push THEN Append(pushed, cmd.seq) ELSE pushed
        /\ fr' = [toolrb |-> TRUE, ran |-> TRUE,
                  close |-> "Close" \in act, select |-> "Select" \in act,
                  recv |-> bs1 # build_state,
                  tag |-> bs2.tag, tkind |-> cur.kind, valid |-> is_valid,
                  compat |-> bs2.tag \in Anchored /\ RuleCompatible(map, bs2, cur),
                  angle |-> bs2.tag \in Anchored /\ RuleAngle(map, bs2, cur, is_rail),
                  nointer |-> bs2.tag \in Anchored /\ RuleNoIntersect(map, bs2, cur, hits),
                  near |-> bs2.tag \in Anchored
                           /\ CloserThanTenths(EndA(bs2, cur).pos, EndB(bs2, cur).pos, 100),
                  rail |-> is_rail,
                  npush |-> IF push THEN 1 ELSE 0,
                  changed |-> bs3 # build_state,
                  geo |-> geo,
                  unrel |-> unrel,
                  valid_wo |-> {r \in unrel :
                      is_valid_final(RemoveRoad(map, r), bs2, cur, is_rail,
                                     hits \ {Ent("Road", r)}, geo)},
                  sole |-> {r \in unrel :
                      RuleNoIntersect(RemoveRoad(map, r), bs2, cur,
                                      hits \ {Ent("Road", r)})},
                  foreign |-> bs2.tag \in Committing
                              /\ Foreign(hits, EndA(bs2, cur), EndB(bs2, cur)) # {},
                  blocking |-> bs2.tag \in Committing
                               /\ \E x \in Foreign(hits, EndA(bs2, cur), EndB(bs2, cur)) :
                                      x.kind = "Road" => x.id \in unrel,
                  stale |-> StaleAnchor(map, bs2),
                  panic |-> FALSE]
        /\ pc' = "tick"
        /\ UNCHANGED <<map, received, applied, call, netvars>>

\* the frame stops in the failed lookup of compatible: what the received
\* commands, Close and the elevation keys did before it is already stored
FramePanic(act, bs1, bs2, cur) ==
    /\ build_state' = bs2
    /\ height_offset' = AfterElevation(height_offset, act)
    /\ fr' = [NoFrame EXCEPT !.ran = TRUE, !.close = ("Close" \in act),
                             !.select = ("Select" \in act),
                             !.recv = (bs1 # build_state),
                             !.tag = bs2.tag, !.tkind = cur.kind,
                             !.changed = (bs2 # build_state),
                             !.stale = StaleAnchor(map, bs2), !.panic = TRUE]
    /\ pc' = "panic"
    /\ UNCHANGED <<map, commands, received, pushed, applied, call, netvars>>

\* the outcomes of is_steep and generate_points that can be told apart
GeoSet(bs, cur) ==
    {"ok"} \cup (IF bs.tag \in {"Connection", "Interpolation"} THEN {"steep"} ELSE {})
           \cup (IF has_build_args(bs, cur) THEN {"err"} ELSE {})

\* at most one overlap besides the certain ones, when a query is made
ExtraSets(m, bs, must) ==
    {{}} \cup (IF bs.tag \in Committing THEN {{e} : e \in AllEnts(m) \ must} ELSE {})

\* a frame of the road-build tool with the cursor on the terrain at unproj
Frame(tool, unproj, act, budget) ==
    /\ pc = "gui"
    /\ Running(budget)
    /\ is_roadbuild(tool)
    /\ \E mousepos \in {P3(SiteXY[unproj], 4 * height_offset)} :
       \E bs1 \in {ReceivedLoop(map, received, tool, build_state)} :
       \E bs2 \in {AfterClose(bs1, act)} :
       \E nosnapping \in BOOLEAN :
       \E cur \in {CurProj(map, bs2, mousepos, nosnapping)} :
       \E must \in {MustHit(map, PosXY(EndA(bs2, cur).pos), PosXY(EndB(bs2, cur).pos),
                            bs2.tag \in {"Start", "StartInterp"})} :
       \E is_rail \in (IF bs2.tag \in Anchored THEN BOOLEAN ELSE {FALSE}) :
       \E extra \in ExtraSets(map, bs2, must) :
       \E geo \in GeoSet(bs2, cur) :
          IF is_valid_panics(map, bs2, cur)
          THEN FramePanic(act, bs1, bs2, cur)
          ELSE FrameBody(tool, mousepos, act, is_rail, geo, bs1, bs2, cur,
                         Query(must, extra, map), budget)

\* the game loop hands the queue to tick and starts the next frame with an
\* empty queue; the gui sees what was applied as received_commands
QueueAfterTick(cmds) == <<>>
ReceivedAfterTick(cmds) == cmds

\* Egregoria::tick: every queued command is applied, in order, then the
\* schedule runs
Tick ==
    /\ pc = "tick"
    /\ map' = ApplyAll(map, TickOrder(commands))
    /\ applied' = applied \o SeqNos(TickOrder(commands))
    /\ received' = ReceivedAfterTick(commands)
    /\ commands' = QueueAfterTick(commands)
    /\ pc' = "gui"
    /\ fr' = NoFrame
    /\ UNCHANGED <<build_state, height_offset, pushed, call, netvars>>

-----------------------------------------------------------------------------

\* Intersection::make, and the empty road store
NewIntersection ==
    [roads |-> <<>>, turns |-> {},
     turn_policy |-> [back_turns |-> FALSE, left_turns |-> TRUE, roundabout |-> 0]]

NoRoads == <<>>
NoOp == [fn |-> "none", id |-> 0, dead |-> FALSE]

InitMap ==
    [inters |-> (1 :> 0) @@ (2 :> 0),
     roads |-> (1 :> [src |-> 1, dst |-> 2, via |-> 0]),
     ctr |-> 1]

NoCall == [fn |-> "none"]

Init ==
    /\ build_state = Hover
    /\ height_offset = 0
    /\ map = InitMap
    /\ commands = <<>>
    /\ received = <<>>
    /\ pc = "gui"
    /\ pushed = <<>>
    /\ applied = <<>>
    /\ fr = NoFrame
    /\ call = NoCall
    /\ intersection = NewIntersection
    /\ roads = NoRoads
    /\ op = NoOp
    /\ InitSync

\* the user presses UpElevation at most MaxUp times above the ground
ActsAt(h) == {a \in ActSets : "UpElevation" \in a => h < 5 * MaxUp}

Next ==
    \/ \E tool \in Tools : FrameOtherTool(tool, MaxCmds)
    \/ \E tool \in Tools, act \in ActSets : FrameNoCursor(tool, act, MaxCmds)
    \/ \E tool \in Tools, unproj \in Sites, act \in ActsAt(height_offset) :
          Frame(tool, unproj, act, MaxCmds)
    \/ Tick

Spec == Init /\ [][Next]_vars

-----------------------------------------------------------------------------
(* The command queue over two commands: three sites, on the ground *)

QueueSites == {1, 2, 4}
QueueActs == {{}, {"Select"}, {"Close"}, {"Close", "Select"}}

NextQueue ==
    \/ \E tool \in Tools : FrameOtherTool(tool, MaxQueued)
    \/ \E tool \in Tools, act \in QueueActs : FrameNoCursor(tool, act, MaxQueued)
    \/ \E tool \in Tools, unproj \in QueueSites, act \in QueueActs :
          Frame(tool, unproj, act, MaxQueued)
    \/ Tick

SpecQueue == Init /\ [][NextQueue]_vars

-----------------------------------------------------------------------------
(* The validation of candidates on several maps *)

\* the maps the validation is run on: the initial one; one where a second
\* road leaves intersection 2 to the north; one where a road going north
\* from the middle of road 1 has split it
Maps ==
    {InitMap,
     ApplyCommand(InitMap,
         MapMakeConnection(Inter(2, InterPos(InitMap, 2)), Ground(P3(SiteXY[4], 0)),
                           FALSE, NoXY, FALSE, 0)),
     ApplyCommand(InitMap,
         MapMakeConnection(Road(1, P3(SiteXY[3], 0)), Ground(P3(SiteXY[8], 0)),
                           FALSE, NoXY, FALSE, 0))}

ValidationSites == {2, 5, 7, 8}

InitValidation ==
    /\ build_state = Hover
    /\ height_offset = 0
    /\ map \in Maps
    /\ commands = <<>>
    /\ received = <<>>
    /\ pc = "gui"
    /\ pushed = <<>>
    /\ applied = <<>>
    /\ fr = NoFrame
    /\ call = NoCall
    /\ intersection = NewIntersection
    /\ roads = NoRoads
    /\ op = NoOp
    /\ InitSync

NextValidation ==
    \/ \E tool \in Tools : FrameOtherTool(tool, MaxCmds)
    \/ \E tool \in Tools, act \in ActSets : FrameNoCursor(tool, act, MaxCmds)
    \/ \E tool \in Tools, unproj \in ValidationSites, act \in ActsAt(height_offset) :
          Frame(tool, unproj, act, MaxCmds)
    \/ Tick

SpecValidation == InitValidation /\ [][NextValidation]_vars

-----------------------------------------------------------------------------
(* Roads removed by other participants while an anchor is held *)

\* the map once road r is removed, together with (drop) the intersections
\* this leaves without a road
RemoveRoadAndEnds(m, r, drop) ==
    LET m1 == RemoveRoad(m, r)
        keep == {i \in DOMAIN m1.inters : ~drop \/ InterRoads(m1, i) # {}}
    IN  [m1 EXCEPT !.inters = [i \in keep |-> m1.inters[i]]]

\* a tick that also applies the command of another participant removing
\* road r; that command is no MapMakeConnection, the received-command loop
\* of the next frame skips it
TickRemote(r, drop) ==
    /\ pc = "tick"
    /\ HasRoad(map, r)
    /\ map' = RemoveRoadAndEnds(ApplyAll(map, TickOrder(commands)), r, drop)
    /\ applied' = applied \o SeqNos(TickOrder(commands))
    /\ received' = ReceivedAfterTick(commands)
    /\ commands' = QueueAfterTick(commands)
    /\ pc' = "gui"
    /\ fr' = NoFrame
    /\ UNCHANGED <<build_state, height_offset, pushed, call, netvars>>

StaleActs == {{}, {"Select"}}

NextStale ==
    \/ \E tool \in Tools : FrameOtherTool(tool, MaxCmds)
    \/ \E tool \in Tools, act \in StaleActs : FrameNoCursor(tool, act, MaxCmds)
    \/ \E tool \in Tools, unproj \in Sites, act \in StaleActs :
          Frame(tool, unproj, act, MaxCmds)
    \/ Tick
    \/ \E r \in DOMAIN map.roads, drop \in BOOLEAN : TickRemote(r, drop)

\* the run starts on the map where two roads meet at intersection 2
InitStale ==
    /\ InitValidation
    /\ Cardinality(DOMAIN map.roads) = 2

SpecStale == InitStale /\ [][NextStale]_vars

-----------------------------------------------------------------------------
(* Single calls of compatible and check_angle *)

\* the projections a call can be given on map m
Projections(m) ==
    {Ground(P3(SiteXY[s], 0)) : s \in AllSites}
    \cup {Inter(i, InterPos(m, i)) : i \in DOMAIN m.inters}
    \cup UNION {{Road(r, P3(SiteXY[s], RoadZAt(m, r, SiteXY[s]))) :
                    s \in {t \in AllSites : OnRoad(m, r, SiteXY[t])}} :
                r \in DOMAIN m.roads}
    \cup {Building(1, P3(SiteXY[s], 0)) : s \in {4, 7}}

CallCompatible(x, y) ==
    /\ call' = [fn |-> "compatible", x |-> x, y |-> y,
                res |-> compatible(map, x, y), rev |-> compatible(map, y, x)]
    /\ UNCHANGED <<build_state, height_offset, map, commands, received, pc,
                   pushed, applied, fr, netvars>>

CallCheckAngle(from, to, is_rail) ==
    /\ call' = [fn |-> "check_angle", from |-> from, to |-> to, rail |-> is_rail,
                res |-> check_angle(map, from, to, is_rail)]
    /\ UNCHANGED <<build_state, height_offset, map, commands, received, pc,
                   pushed, applied, fr, netvars>>

NextCalls ==
    \/ \E x \in Projections(map), y \in Projections(map) : CallCompatible(x, y)
    \/ \E from \in Projections(map), s \in AllSites, is_rail \in BOOLEAN :
          CallCheckAngle(from, SiteXY[s], is_rail)

SpecCalls == InitValidation /\ [][NextCalls]_vars

-----------------------------------------------------------------------------
(* Claims about the interaction state machine and the command queue *)

ResetFrame(f) == f.close \/ ~f.toolrb

\* C1 as stated: build_state changes only in a frame where Select was just
\* pressed and the candidate is valid, or by a reset to Hover on cancel or
\* tool switch.
C1_SelectOnly ==
    [][build_state' # build_state =>
          \/ fr'.select /\ fr'.valid
          \/ build_state' = Hover /\ ResetFrame(fr')]_vars

\* C1 amended: build_state changes only in a frame where Select was just
\* pressed and the candidate is valid, or by a reset to Hover on cancel or
\* tool switch, or because a received MapMakeConnection ends on an
\* intersection, which becomes the anchor of Start or StartInterp.
C1_SelectOrReceived ==
    [][build_state' # build_state =>
          \/ fr'.select /\ fr'.valid
          \/ build_state' = Hover /\ ResetFrame(fr')
          \/ /\ fr'.recv
             /\ received # <<>>
             /\ build_state'.tag \in {"Start", "StartInterp"}
             /\ build_state'.a.kind = "Inter"]_vars

\* a frame without Select moved Hover to Start on a received command
C1_Witness ==
    /\ fr.ran /\ fr.recv /\ fr.changed /\ ~fr.select
    /\ build_state.tag = "Start"

\* C2: a frame pushes exactly one MapMakeConnection when Select was just
\* pressed, the candidate is valid and build_state is Start, Connection or
\* Interpolation, and then build_state is Hover; every other frame leaves
\* the queue unchanged; no frame changes the map.
C2_PushExactlyOnCommit ==
    [][pc = "gui" =>
          /\ map' = map
          /\ IF fr'.ran /\ fr'.select /\ fr'.valid /\ fr'.tag \in Committing
             THEN /\ Len(commands') = Len(commands) + 1
                  /\ SubSeq(commands', 1, Len(commands)) = commands
                  /\ commands'[Len(commands')].kind = "MapMakeConnection"
                  /\ build_state' = Hover
             ELSE commands' = commands]_vars

\* a curved connection was committed
C2_Witness ==
    /\ fr.ran /\ fr.select /\ fr.valid /\ fr.tag = "Connection"
    /\ Len(commands) = 1 /\ build_state = Hover

C4_ResetToHover ==
    /\ ResetFrame(fr) => build_state = Hover
    /\ ~fr.toolrb => height_offset = 0

-----------------------------------------------------------------------------
(* Claims about the validation of a candidate *)

\* C5 as stated: in every build state that holds an anchor, is_valid is
\* true only if compatibility, angle and non-intersection all hold for the
\* candidate.
C5_AllThreeRules ==
    fr.ran /\ fr.tag \in Anchored /\ fr.valid =>
        fr.compat /\ fr.angle /\ fr.nointer

\* C5 amended: in Start, Connection and Interpolation is_valid is true only
\* if compatibility, angle and non-intersection all hold; in StartInterp
\* only if compatibility holds and, for a ground target, the angle at the
\* anchor.
C5_RulesByState ==
    /\ fr.ran /\ fr.tag \in Committing /\ fr.valid =>
          fr.compat /\ fr.angle /\ fr.nointer
    /\ fr.ran /\ fr.tag = "StartInterp" /\ fr.valid =>
          fr.compat /\ (fr.tkind = "Ground" => fr.angle)

\* in StartInterp a target intersection is valid although the segment to it
\* runs over another intersection
C5_Witness ==
    /\ fr.ran /\ fr.tag = "StartInterp" /\ fr.tkind = "Inter"
    /\ fr.valid /\ fr.compat /\ ~fr.nointer

\* C6: when the two ends of the candidate are less than 10 units apart the
\* candidate is invalid and the frame pushes no command, whatever the build
\* state and the kinds of anchor and target.
C6_TooCloseInvalid ==
    fr.ran /\ fr.near => ~fr.valid /\ fr.npush = 0 /\ commands = <<>>

\* Select pressed on the intersection 5 units from the ground anchor
C6_Witness ==
    /\ fr.ran /\ fr.near /\ fr.select /\ fr.tag = "Start"
    /\ fr.tkind = "Inter" /\ build_state.tag = "Start"
    /\ build_state.a.kind = "Ground"

\* the outcome C7 gives for two projections at least 10 units apart
CompatibleKinds(m, x, y) ==
    \/ x.kind = "Ground" /\ y.kind \in {"Ground", "Road", "Inter"}
    \/ y.kind = "Ground" /\ x.kind \in {"Ground", "Road", "Inter"}
    \/ x.kind = "Road" /\ y.kind = "Road" /\ x.id # y.id
    \/ x.kind = "Inter" /\ y.kind = "Inter" /\ x.id # y.id
    \/ \E i \in {x, y}, r \in {x, y} :
          /\ i.kind = "Inter" /\ r.kind = "Road"
          /\ m.roads[r.id].src # i.id
          /\ m.roads[r.id].dst # i.id

C8_EveryIncidentRoad ==
    call.fn = "check_angle" /\ call.res =>
        /\ call.from.kind = "Inter" =>
              \A r \in InterRoads(map, call.from.id) :
                  AngleAtLeast(dir_from(map, r, call.from.id),
                               Sub(call.to, SiteXY[call.from.id]), call.rail)
        /\ call.from.kind = "Road" =>
              /\ AngleAtLeast(RoadDir(map, call.from.id),
                              Sub(call.to, PosXY(call.from.pos)), call.rail)
              /\ AngleAtLeast(Neg(RoadDir(map, call.from.id)),
                              Sub(call.to, PosXY(call.from.pos)), call.rail)

\* the direction of the call is along the track at its anchor
Aligned(m, from, to) ==
    LET dir == Sub(to, PosXY(from.pos)) IN
    IF from.kind = "Inter"
    THEN \E r \in InterRoads(m, from.id) :
            dir_from(m, r, from.id).x * dir.y - dir_from(m, r, from.id).y * dir.x = 0
    ELSE RoadDir(m, from.id).x * dir.y - RoadDir(m, from.id).y * dir.x = 0

\* C9 as stated: for a rail pattern check_angle accepts a candidate at an
\* intersection or on a road only if its direction is exactly that of the
\* track there.
C9_RailExactAlignment ==
    /\ call.fn = "check_angle" /\ call.rail /\ call.res
    /\ call.from.kind \in {"Inter", "Road"}
    => Aligned(map, call.from, call.to)

\* C9 amended: for a rail pattern check_angle accepts a candidate of
\* non-zero length at every angle to the track: always on a road, and at
\* an intersection as soon as a road is incident to it.
C9_RailAnyAngle ==
    /\ call.fn = "check_angle" /\ call.rail
    /\ call.from.kind \in {"Inter", "Road"}
    /\ call.to # PosXY(call.from.pos)
    => (call.res <=> \/ call.from.kind = "Road"
                     \/ InterRoads(map, call.from.id) # {})

\* a rail candidate leaving an intersection across the track is accepted
C9_Witness ==
    /\ call.fn = "check_angle" /\ call.rail /\ call.res
    /\ call.from.kind = "Inter"
    /\ call.to # PosXY(call.from.pos)
    /\ ~Aligned(map, call.from, call.to)

\* C10 as stated: a candidate of Start, Connection or Interpolation whose
\* query returns a road connected to neither end and in its elevation band
\* is invalid, and valid once that road alone is removed.
C10_ValidOnceRemoved ==
    fr.ran => \A r \in fr.unrel : ~fr.valid /\ r \in fr.valid_wo

\* C10 amended: such a candidate is invalid; once that road alone is
\* removed it is valid exactly when compatibility and angle hold, the curve
\* is not too steep, its points are generated without error, and the query
\* returns no other entity that check_intersect counts.
C10_BlockedByUnrelated ==
    fr.ran => \A r \in fr.unrel :
        /\ ~fr.valid
        /\ r \in fr.valid_wo <=>
              fr.compat /\ fr.angle /\ fr.geo = "ok" /\ r \in fr.sole

\* a straight candidate over a road that is valid once the road is removed
C10_Witness ==
    /\ fr.ran /\ fr.tag = "Start" /\ fr.unrel # {} /\ ~fr.valid
    /\ fr.valid_wo = fr.unrel

\* C11 as stated: a valid candidate of Start, Connection or Interpolation
\* overlaps no road and no intersection of the spatial index other than
\* the entities its two ends name.
C11_OnlyEndsOverlapped ==
    fr.ran /\ fr.tag \in Committing /\ fr.valid => ~fr.foreign

\* C11 amended: a valid candidate of Start, Connection or Interpolation
\* overlaps no intersection other than its ends, and no road other than
\* its ends, the roads incident to an end intersection, and the roads with
\* an end more than one unit above or below the candidate's elevation.
C11_OnlyExemptOverlapped ==
    fr.ran /\ fr.tag \in Committing /\ fr.valid => ~fr.blocking

\* a committed straight candidate that overlaps a road neither end names
C11_Witness ==
    /\ fr.ran /\ fr.tag = "Start" /\ fr.valid /\ fr.select
    /\ fr.foreign /\ ~fr.blocking /\ fr.npush = 1

\* C12 as stated: in a frame where generate_points reports an error for
\* the candidate, is_valid is false, no command is pushed and build_state
\* does not change, even when Select was just pressed and the three rules
\* hold.
C12_ErrorNoChange ==
    [][pc = "gui" /\ fr'.ran /\ fr'.geo = "err" =>
          /\ ~fr'.valid
          /\ commands' = commands
          /\ build_state' = build_state]_vars

\* C12 amended: in such a frame is_valid is false, no command is pushed
\* and the Select press changes nothing: build_state ends the frame as it
\* began, or as the received commands set it (Start or StartInterp on the
\* intersection a received connection ends on).
C12_ErrorBlocksSelect ==
    [][pc = "gui" /\ fr'.ran /\ fr'.geo = "err" =>
          /\ ~fr'.valid
          /\ commands' = commands
          /\ \/ build_state' = build_state
             \/ /\ fr'.recv
                /\ received # <<>>
                /\ build_state'.tag \in {"Start", "StartInterp"}
                /\ build_state'.a.kind = "Inter"]_vars

\* Select pressed on a candidate that passes the three rules but whose
\* points could not be generated
C12_Witness ==
    /\ fr.ran /\ fr.geo = "err" /\ fr.select /\ fr.tag \in Committing
    /\ fr.compat /\ fr.angle /\ fr.nointer
    /\ ~fr.valid /\ ~fr.changed /\ commands = <<>>

\* C13: when an anchor of build_state names a road or an intersection that
\* has been removed from the map, the frame completes without a failed
\* store lookup and reports the candidate as not buildable, whatever the
\* kind of the target.
C13_StaleAnchorSafe ==
    fr.ran /\ fr.stale => ~fr.panic /\ ~fr.valid

-----------------------------------------------------------------------------
(* Lengths that are square roots: a length r >= 0 is kept as the reduced   *)
(* fraction n/d of its square, which is exact for every value the          *)
(* interface computation produces from integer widths and directions.      *)

RECURSIVE GCD(_, _)
GCD(a, b) == IF b = 0 THEN a ELSE GCD(b, a % b)

Val(n, d) == [n |-> n \div GCD(n, d), d |-> d \div GCD(n, d)]

\* the length t / 10
FromTenths(t) == Val(t * t, 100)

ValLe(a, b) == a.n * b.d <= b.n * a.d
ValLt(a, b) == a.n * b.d < b.n * a.d
\* f32::max and f32::min
ValMax(a, b) == IF ValLe(a, b) THEN b ELSE a
ValMin(a, b) == IF ValLe(a, b) THEN a ELSE b

-----------------------------------------------------------------------------
(* The road store and the roads that can meet at the intersection *)

RoadIds == 1 .. 4

East == [x |-> 1, y |-> 0]
EastNorthEast == [x |-> 2, y |-> 1]
North == [x |-> 0, y |-> 1]
West == [x |-> -1, y |-> 0]
South == [x |-> 0, y |-> -1]

\* a road that will be built: its departure direction from the
\* intersection, its width, the length of its centerline, its interface at
\* the intersection and at its far end
Planned(dir, width, len) ==
    [state |-> "new", dir |-> dir, width |-> width, len |-> len,
     interface |-> FromTenths(0), far |-> FromTenths(0)]

\* four roads of one width leaving at 0, 90, 180 and 270 degrees
CrossRoads(w) ==
    << Planned(East, w, 80), Planned(North, w, 80),
       Planned(West, w, 80), Planned(South, w, 80) >>

\* roads of several widths, two of them 26.6 degrees apart, one of them
\* only 40 long
MixedRoads ==
    << Planned(East, 16, 40), Planned(EastNorthEast, 32, 80),
       Planned(North, 48, 80), Planned(West, 8, 80) >>

\* the widths are sums of lane widths: a single one-way lane (8), one lane
\* each way alone (16), with sidewalks and parking (32), two lanes each
\* way with sidewalks and parking (48)
RoadTables == {CrossRoads(16), CrossRoads(32), CrossRoads(48), MixedRoads}

\* Roads::contains_key
contains_key(rs, id) == id \in DOMAIN rs /\ rs[id].state = "present"

\* Road::dir_from(id) of a road of the store, unnormalised
road_dir_from(rs, id) == rs[id].dir

\* Road::interface_from(id), Road::set_interface and Road::max_interface
\* at the end of the road that is at the intersection
interface_from_end(rs, id) == rs[id].interface
max_interface_Overwrite(rs, id, v) == [rs EXCEPT ![id].interface = v]
set_interface(rs, id, v) == [rs EXCEPT ![id].interface = v]
max_interface(rs, id, v) == [rs EXCEPT ![id].interface = ValMax(rs[id].interface, v)]

MIN_INTERFACE == 90

\* Intersection::empty_interface: (width * 0.8).max(MIN_INTERFACE)
empty_interface(width) ==
    FromTenths(IF width * 8 > MIN_INTERFACE THEN width * 8 ELSE MIN_INTERFACE)

\* Intersection::interface_calc: (w * 1.1 / sin).min(30.0), where
\* w = hypot(w1 / 2, w2 / 2), d = clamp(dir1 . dir2, 0, 1) for the unit
\* directions and sin = sqrt(1 - d * d); sin = 0 gives +inf, hence 30
interface_calc(w1, w2, dir1, dir2) ==
    LET uu == Dot(dir1, dir1) * Dot(dir2, dir2)
        dd == IF Dot(dir1, dir2) <= 0 THEN 0 ELSE Sq(Dot(dir1, dir2))
    IN  IF uu = dd THEN FromTenths(300)
        ELSE ValMin(Val(121 * (Sq(w1) + Sq(w2)) * uu, 400 * (uu - dd)),
                    FromTenths(300))

\* pseudo_angle of a direction, as the fraction k / s: 1 - p for y >= 0 and
\* p - 1 for y < 0, where p = x / (|x| + |y|)
pseudo_angle(v) ==
    LET sum == Abs(v.x) + Abs(v.y)
    IN  [k |-> IF v.y < 0 THEN v.x - sum ELSE sum - v.x, s |-> sum]

AngleLe(a, b) == a.k * b.s <= b.k * a.s

-----------------------------------------------------------------------------
(* Intersection (intersection.rs) *)

Range(f) == {f[k] : k \in DOMAIN f}

\* Vec::retain
RECURSIVE Retain(_, _)
Retain(list, keep) ==
    IF list = <<>> THEN <<>>
    ELSE IF Head(list) \in keep THEN <<Head(list)>> \o Retain(Tail(list), keep)
    ELSE Retain(Tail(list), keep)

Present(rs) == {id \in DOMAIN rs : contains_key(rs, id)}

\* the sort key of add_road
SortKey(rs, id) == pseudo_angle(road_dir_from(rs, id))

\* x put into the sorted list after every entry whose key is not larger
RECURSIVE InsertSorted(_, _, _)
InsertSorted(rs, sorted, x) ==
    IF sorted = <<>> THEN <<x>>
    ELSE IF AngleLe(SortKey(rs, Head(sorted)), SortKey(rs, x))
    THEN <<Head(sorted)>> \o InsertSorted(rs, Tail(sorted), x)
    ELSE <<x>> \o sorted

\* Vec::sort_by_key, a stable sort
RECURSIVE SortByKey(_, _)
SortByKey(rs, list) ==
    IF list = <<>> THEN <<>>
    ELSE InsertSorted(rs, SortByKey(rs, SubSeq(list, 1, Len(list) - 1)),
                      list[Len(list)])

add_road_NoRetain(inter, rs, id) ==
    [inter EXCEPT !.roads = SortByKey(rs, Append(inter.roads, id))]

add_road_Unsorted(inter, rs, id) ==
    [inter EXCEPT !.roads = Retain(Append(inter.roads, id), Present(rs))]

\* Intersection::add_road
add_road(inter, rs, id) ==
    [inter EXCEPT !.roads = SortByKey(rs, Retain(Append(inter.roads, id), Present(rs)))]

\* Intersection::remove_road
remove_road(inter, id) ==
    [inter EXCEPT !.roads = Retain(inter.roads, RoadIds \ {id})]

\* Intersection::check_dead_roads
check_dead_roads(inter, rs) ==
    [inter EXCEPT !.roads = Retain(inter.roads, Present(rs))]

is_roundabout_AnyCount(inter) == inter.turn_policy.roundabout # 0

\* Intersection::is_roundabout
is_roundabout(inter) ==
    inter.turn_policy.roundabout # 0 /\ Len(inter.roads) > 1

SetAll_Skipped(rs, list, k) == rs

RECURSIVE SetAll(_, _, _)
SetAll(rs, list, k) ==
    IF k > Len(list) THEN rs
    ELSE SetAll(set_interface(rs, list[k], empty_interface(rs[list[k]].width)), list, k + 1)

MaxAll_Skipped(rs, list, k, v) == rs

RECURSIVE MaxAll(_, _, _, _)
MaxAll(rs, list, k, v) ==
    IF k > Len(list) THEN rs
    ELSE MaxAll(max_interface(rs, list[k], v), list, k + 1, v)

\* the pairwise pass over i = k - 1 .. len - 1, on roads[i] and its successor
RECURSIVE PairwisePass_FirstOnly(_, _, _)
PairwisePass_FirstOnly(rs, list, k) ==
    IF k > Len(list) THEN rs
    ELSE LET r1 == list[k]
             r2 == list[(k % Len(list)) + 1]
             min_dist == interface_calc(rs[r1].width, rs[r2].width,
                                        road_dir_from(rs, r1), road_dir_from(rs, r2))
         IN  PairwisePass_FirstOnly(max_interface(rs, r1, min_dist), list, k + 1)

RECURSIVE PairwisePass(_, _, _)
PairwisePass(rs, list, k) ==
    IF k > Len(list) THEN rs
    ELSE LET r1 == list[k]
             r2 == list[(k % Len(list)) + 1]
             min_dist == interface_calc(rs[r1].width, rs[r2].width,
                                        road_dir_from(rs, r1), road_dir_from(rs, r2))
         IN  PairwisePass(max_interface(max_interface(rs, r1, min_dist), r2, min_dist),
                          list, k + 1)

\* Intersection::update_interface_radius: the intersection and the store
\* it leaves
update_interface_radius(inter, rs) ==
    LET in1 == check_dead_roads(inter, rs)
        rs1 == SetAll(rs, in1.roads, 1)
        rs2 == IF is_roundabout(in1)
               THEN MaxAll(rs1, in1.roads, 1,
                           FromTenths(in1.turn_policy.roundabout * 11 + 50))
               ELSE rs1
    IN  [inter |-> in1,
         roads |-> IF Len(in1.roads) <= 1 THEN rs2 ELSE PairwisePass(rs2, in1.roads, 1)]

\* the interface value a road carries when it enters the store, before
\* any intersection has computed one
InitialInterfaces == {FromTenths(0)}

\* the roundabout radius of the turn policy; 0 stands for None
RoundaboutRadii == {0, 20}

\* whether the list names a road that is not in the store
HasDead(inter, rs) == ~(Range(inter.roads) \subseteq Present(rs))

\* the last operation: its name, the id remove_road deleted (0 if none),
\* and whether the list named a dead road when the operation began
Did(fn, id) == [fn |-> fn, id |-> id, dead |-> HasDead(intersection, roads)]

\* Roads::insert: the road enters the store
InsertRoad(id, v) ==
    /\ roads[id].state = "new"
    /\ roads' = [roads EXCEPT ![id].state = "present", ![id].interface = v]
    /\ op' = Did("insert", 0)
    /\ UNCHANGED <<intersection, guivars>>

\* Roads::remove: the road leaves the store, the intersection is not told
StoreRemove(id) ==
    /\ roads[id].state = "present"
    /\ roads' = [roads EXCEPT ![id].state = "removed", ![id].interface = FromTenths(0),
                              ![id].far = FromTenths(0)]
    /\ op' = Did("store_remove", 0)
    /\ UNCHANGED <<intersection, guivars>>

\* a call of add_road with a road that is not in the list yet; the road
\* is in the store or about to enter it
AddRoad(id) ==
    /\ roads[id].state \in {"new", "present"}
    /\ id \notin Range(intersection.roads)
    /\ intersection' = add_road(intersection, roads, id)
    /\ op' = Did("add_road", 0)
    /\ UNCHANGED <<roads, guivars>>

\* a call of remove_road with any id; op keeps the id when it was listed
RemoveRoadCall(id) ==
    /\ intersection' = remove_road(intersection, id)
    /\ op' = Did("remove_road", IF id \in Range(intersection.roads) THEN id ELSE 0)
    /\ UNCHANGED <<roads, guivars>>

\* a call of update_interface_radius
UpdateInterfaceRadius ==
    /\ \E res \in {update_interface_radius(intersection, roads)} :
          /\ intersection' = res.inter
          /\ roads' = res.roads
    /\ op' = Did("update_interface_radius", 0)
    /\ UNCHANGED guivars

\* the turn policy's roundabout is set or cleared
SetRoundabout(r) ==
    /\ intersection.turn_policy.roundabout # r
    /\ intersection' = [intersection EXCEPT !.turn_policy.roundabout = r]
    /\ op' = Did("set_roundabout", 0)
    /\ UNCHANGED <<roads, guivars>>

InitNet ==
    /\ build_state = Hover
    /\ height_offset = 0
    /\ map = InitMap
    /\ commands = <<>>
    /\ received = <<>>
    /\ pc = "gui"
    /\ pushed = <<>>
    /\ applied = <<>>
    /\ fr = NoFrame
    /\ call = NoCall
    /\ intersection = NewIntersection
    /\ roads \in RoadTables
    /\ op = NoOp
    /\ InitSync

NextNet ==
    \/ \E id \in RoadIds, v \in InitialInterfaces : InsertRoad(id, v)
    \/ \E id \in RoadIds : StoreRemove(id)
    \/ \E id \in RoadIds : AddRoad(id)
    \/ \E id \in RoadIds : RemoveRoadCall(id)
    \/ UpdateInterfaceRadius
    \/ \E r \in RoundaboutRadii : SetRoundabout(r)

SpecNet == InitNet /\ [][NextNet]_vars

-----------------------------------------------------------------------------
(* C15: after any interleaving of store insertions and removals with       *)
(* add_road, remove_road and update_interface_radius, the road list names  *)
(* only roads present in the store.                                        *)
C15_ListOnlyLive == ~HasDead(intersection, roads)

(* C15, as the code has it: the list names only roads present in the store *)
(* in the state that add_road or update_interface_radius leaves; a road    *)
(* removed from the store stays listed until one of the two runs.          *)
C15_LiveAfterRetain ==
    op.fn \in {"add_road", "update_interface_radius"} => ~HasDead(intersection, roads)

\* add_road or update_interface_radius has just dropped a dead road
C15_Witness ==
    /\ op.fn \in {"add_road", "update_interface_radius"}
    /\ op.dead
    /\ ~HasDead(intersection, roads)
    /\ intersection.roads # <<>>

IsSorted(rs, list) ==
    \A i, j \in 1 .. Len(list) :
        i < j => AngleLe(SortKey(rs, list[i]), SortKey(rs, list[j]))

RemovedOnly ==
    op'.fn = "remove_road" =>
        IF op'.id = 0
        THEN intersection'.roads = intersection.roads
        ELSE /\ op'.id \notin Range(intersection'.roads)
             /\ intersection'.roads =
                    SelectSeq(intersection.roads, LAMBDA x : x # op'.id)

(* C16: with the roads' directions unchanged, the road list is always in   *)
(* non-decreasing pseudo-angle order; remove_road deletes the id, keeps    *)
(* the order of the others, and changes nothing when the id is not listed. *)
C16_SortedAndRemoved ==
    /\ [](IsSorted(roads, intersection.roads))
    /\ [][RemovedOnly]_vars

\* remove_road has deleted a road from a list that is not in id order
C16_Witness ==
    /\ op.fn = "remove_road"
    /\ op.id # 0
    /\ Len(intersection.roads) >= 2
    /\ intersection.roads[1] > intersection.roads[2]

\* the minimum distance the pairwise pass computes for the roads at
\* positions k and k + 1 (wrapping) of the list
PairMinDist(rs, list, k) ==
    LET r1 == list[k]
        r2 == list[(k % Len(list)) + 1]
    IN  interface_calc(rs[r1].width, rs[r2].width,
                       road_dir_from(rs, r1), road_dir_from(rs, r2))

JustUpdated == op.fn = "update_interface_radius"

(* C18: in the state update_interface_radius leaves on a list of two or    *)
(* more roads, both roads of every cyclically adjacent pair have an        *)
(* interface of at least min(hypot(w1/2, w2/2) * 1.1 / sin, 30).           *)
C18_PairwiseMinimum ==
    JustUpdated /\ Len(intersection.roads) >= 2 =>
        \A k \in 1 .. Len(intersection.roads) :
            LET list == intersection.roads
                r1 == list[k]
                r2 == list[(k % Len(list)) + 1]
            IN  /\ ValLe(PairMinDist(roads, list, k), roads[r1].interface)
                /\ ValLe(PairMinDist(roads, list, k), roads[r2].interface)

\* the pass has raised a road above its default to the distance of the
\* pair it forms with its predecessor, which its other pair does not reach
C18_Witness ==
    /\ JustUpdated
    /\ Len(intersection.roads) >= 3
    /\ \E k \in 1 .. Len(intersection.roads) - 1 :
          LET list == intersection.roads
              r2 == list[k + 1]
          IN  /\ roads[r2].interface = PairMinDist(roads, list, k)
              /\ ValLt(empty_interface(roads[r2].width), roads[r2].interface)
              /\ ValLt(PairMinDist(roads, list, k + 1), roads[r2].interface)

\* four listed roads of one width leaving at 0, 90, 180 and 270 degrees,
\* and no roundabout
IsCross(inter, rs) ==
    /\ Len(inter.roads) = 4
    /\ inter.turn_policy.roundabout = 0
    /\ \A i, j \in 1 .. 4 : rs[inter.roads[i]].width = rs[inter.roads[j]].width
    /\ {road_dir_from(rs, inter.roads[i]) : i \in 1 .. 4} = {East, North, West, South}

CAP == 300

(* C19: on four roads of one width at 0, 90, 180 and 270 degrees, without  *)
(* a roundabout, update_interface_radius gives all four the same           *)
(* interface, and that interface is below 30, whatever the width.          *)
C19_CrossEqualBelowCap ==
    JustUpdated /\ IsCross(intersection, roads) =>
        \A i \in 1 .. 4 :
            /\ roads[intersection.roads[i]].interface = roads[intersection.roads[1]].interface
            /\ ValLt(roads[intersection.roads[i]].interface, FromTenths(CAP))

(* C19, as the code has it: all four get max(width * 0.8, 9.0), the        *)
(* pairwise distance hypot(w/2, w/2) * 1.1 being smaller; it is below 30   *)
(* exactly when the width is below 37.5.                                   *)
C19_CrossEqualDefault ==
    JustUpdated /\ IsCross(intersection, roads) =>
        \A i \in 1 .. 4 :
            LET r == roads[intersection.roads[i]]
            IN  /\ r.interface = empty_interface(r.width)
                /\ ValLt(PairMinDist(roads, intersection.roads, i), r.interface)
                /\ ValLt(r.interface, FromTenths(CAP)) <=> r.width * 8 < CAP

\* the four-way crossing of the widest roads has been updated: 38.4 each
C19_Witness ==
    /\ JustUpdated
    /\ IsCross(intersection, roads)
    /\ \A i \in 1 .. 4 : ~ValLt(roads[intersection.roads[i]].interface, FromTenths(CAP))

(* C20: in the state update_interface_radius leaves on a list of exactly   *)
(* one road, that road's interface is max(width * 0.8, 9.0), whatever it   *)
(* was before and whatever the turn policy.                                *)
C20_DeadEndDefault ==
    JustUpdated /\ Len(intersection.roads) = 1 =>
        LET r == roads[intersection.roads[1]]
        IN  /\ r.interface = empty_interface(r.width)
            /\ r.interface = FromTenths(Max(r.width * 8, MIN_INTERFACE))

\* a dead end whose policy has a roundabout and whose road is so narrow
\* that the 9.0 floor applies has been updated
C20_Witness ==
    /\ JustUpdated
    /\ Len(intersection.roads) = 1
    /\ intersection.turn_policy.roundabout # 0
    /\ roads[intersection.roads[1]].interface = FromTenths(MIN_INTERFACE)

-----------------------------------------------------------------------------
(* A road between the intersection and a dead end *)

\* the road's far end is an intersection that lists this road alone; its
\* update_interface_radius computes the road's interface there
UpdateFarEnd(id) ==
    /\ contains_key(roads, id)
    /\ \E res \in {update_interface_radius(
                      [NewIntersection EXCEPT !.roads = <<id>>], roads)} :
          roads' = [roads EXCEPT ![id].far = interface_from_end(res.roads, id)]
    /\ op' = Did("update_far", 0)
    /\ UNCHANGED <<intersection, guivars>>

NextEnds ==
    \/ \E id \in RoadIds, v \in InitialInterfaces : InsertRoad(id, v)
    \/ \E id \in RoadIds : AddRoad(id)
    \/ UpdateInterfaceRadius
    \/ \E id \in RoadIds : UpdateFarEnd(id)

SpecEnds == InitNet /\ [][NextEnds]_vars

\* compatible's first test on endpoints len apart
MinSeparation(len) == ~(len * 10 < 100)

\* the largest number of tenths whose square does not exceed v
FloorTenths(v) ==
    CHOOSE k \in 0 .. 400 : Sq(k) * v.d <= 100 * v.n /\ Sq(k + 1) * v.d > 100 * v.n

(* C17: a road whose endpoints the validator accepted (10 or more apart)   *)
(* and whose interface both end intersections have computed has a          *)
(* centerline at least as long as the two interfaces together.             *)
C17_LengthCoversInterfaces ==
    \A id \in RoadIds :
        /\ contains_key(roads, id)
        /\ MinSeparation(roads[id].len)
        /\ roads[id].interface # FromTenths(0)
        /\ roads[id].far # FromTenths(0)
        => roads[id].len * 10 >=
               FloorTenths(roads[id].interface) + FloorTenths(roads[id].far)

-----------------------------------------------------------------------------
(* Lanes (lane.rs) and the turn policy (turn_policy.rs) *)

\* the LanePatternBuilder a road of the given width was built from
PatternOf(width) ==
    CASE width = 8  -> [n_lanes |-> 1, sidewalks |-> FALSE, parking |-> FALSE, one_way |-> TRUE]
      [] width = 16 -> [n_lanes |-> 1, sidewalks |-> FALSE, parking |-> FALSE, one_way |-> FALSE]
      [] width = 32 -> [n_lanes |-> 1, sidewalks |-> TRUE, parking |-> TRUE, one_way |-> FALSE]
      [] width = 48 -> [n_lanes |-> 2, sidewalks |-> TRUE, parking |-> TRUE, one_way |-> FALSE]

\* LanePatternBuilder::build
build(pb) ==
    LET driving == [k \in 1 .. pb.n_lanes |-> "Driving"]
        extras == (IF pb.parking THEN <<"Parking">> ELSE <<>>)
                      \o (IF pb.sidewalks THEN <<"Walking">> ELSE <<>>)
    IN  [lanes_forward |-> driving \o extras,
         lanes_backward |-> (IF pb.one_way THEN <<>> ELSE driving) \o extras]

\* the LanePattern of a road of the given width: the builder's, or for
\* width 40 one made by hand, three driving lanes forward and two backward,
\* or for width 4 a footpath
LanePatternOf(width) ==
    IF width = 40
    THEN [lanes_forward |-> <<"Driving", "Driving", "Driving">>,
          lanes_backward |-> <<"Driving", "Driving">>]
    ELSE IF width = 4
    THEN [lanes_forward |-> <<"Walking">>, lanes_backward |-> <<>>]
    ELSE build(PatternOf(width))

\* LaneKind::vehicles
vehicles(kind) == kind \in {"Driving", "Biking", "Bus"}

\* a lane of road r: forward lanes leave the intersection, which is the
\* road's source, backward lanes arrive at it
LaneOf(r, fwd, idx) == [road |-> r, fwd |-> fwd, idx |-> idx]

lane_kind(rs, l) ==
    LET pat == LanePatternOf(rs[l.road].width)
    IN  IF l.fwd THEN pat.lanes_forward[l.idx] ELSE pat.lanes_backward[l.idx]

\* Road::incoming_lanes_to and Road::outgoing_lanes_from
incoming_lanes_to(rs, r) ==
    [k \in 1 .. Len(LanePatternOf(rs[r].width).lanes_backward) |-> LaneOf(r, FALSE, k)]

outgoing_lanes_from(rs, r) ==
    [k \in 1 .. Len(LanePatternOf(rs[r].width).lanes_forward) |-> LaneOf(r, TRUE, k)]

\* Lane::get_orientation_vec: the way the lane is driven
get_orientation_vec(rs, l) ==
    IF l.fwd THEN road_dir_from(rs, l.road) ELSE Neg(road_dir_from(rs, l.road))

filter_vehicles_KeepAll(rs, x) == x

filter_vehicles(rs, x) == SelectSeq(x, LAMBDA l : vehicles(lane_kind(rs, l)))

\* (TurnID::new(inter_id, src, dst), kind)
TurnEntry(src, dst, kind) == [id |-> [src |-> src, dst |-> dst], kind |-> kind]

\* TurnPolicy::zip
zip(incoming, outgoing) ==
    [k \in 1 .. Min(Len(incoming), Len(outgoing)) |->
        TurnEntry(incoming[k], outgoing[k], "Normal")]

all_FirstOutgoing(incoming, outgoing) ==
    [k \in 1 .. Len(incoming) * Len(outgoing) |->
        TurnEntry(incoming[((k - 1) \div Len(outgoing)) + 1], outgoing[1], "Normal")]

\* TurnPolicy::all
all(incoming, outgoing) ==
    [k \in 1 .. Len(incoming) * Len(outgoing) |->
        TurnEntry(incoming[((k - 1) \div Len(outgoing)) + 1],
                  outgoing[((k - 1) % Len(outgoing)) + 1], "Normal")]

zip_on_same_length_AlwaysZip(incoming, outgoing) == zip(incoming, outgoing)

\* TurnPolicy::zip_on_same_length
zip_on_same_length(incoming, outgoing) ==
    IF Len(incoming) = Len(outgoing) THEN zip(incoming, outgoing)
    ELSE all(incoming, outgoing)

\* incoming_right.dot(outgoing_dir) >= -0.3, on directions of any length
NotLeft(incoming_dir, outgoing_dir) ==
    LET incoming_right == [x |-> incoming_dir.y, y |-> -incoming_dir.x]
        d == Dot(incoming_right, outgoing_dir)
    IN  \/ d >= 0
        \/ 100 * Sq(d) <= 9 * Dot(incoming_dir, incoming_dir) * Dot(outgoing_dir, outgoing_dir)

PairTurns_NoLeftFilter(policy, rs, road1, road2) ==
    IF road1 = road2 /\ ~policy.back_turns THEN <<>>
    ELSE SelectSeq(all(incoming_lanes_to(rs, road1), outgoing_lanes_from(rs, road2)),
                   LAMBDA t :
                       /\ vehicles(lane_kind(rs, t.id.src))
                       /\ vehicles(lane_kind(rs, t.id.dst)))

PairTurns_BackAlways(policy, rs, road1, road2) ==
    SelectSeq(all(incoming_lanes_to(rs, road1), outgoing_lanes_from(rs, road2)),
              LAMBDA t :
                  /\ vehicles(lane_kind(rs, t.id.src))
                  /\ vehicles(lane_kind(rs, t.id.dst))
                  /\ \/ policy.left_turns
                     \/ NotLeft(get_orientation_vec(rs, t.id.src),
                                get_orientation_vec(rs, t.id.dst)))

\* the innermost two loops of generate_vehicle_turns for one road pair
PairTurns(policy, rs, road1, road2) ==
    IF road1 = road2 /\ ~policy.back_turns THEN <<>>
    ELSE SelectSeq(all(incoming_lanes_to(rs, road1), outgoing_lanes_from(rs, road2)),
                   LAMBDA t :
                       /\ vehicles(lane_kind(rs, t.id.src))
                       /\ vehicles(lane_kind(rs, t.id.dst))
                       /\ \/ policy.left_turns
                          \/ NotLeft(get_orientation_vec(rs, t.id.src),
                                     get_orientation_vec(rs, t.id.dst)))

\* the road pairs from the k-th on, road1 outermost
RECURSIVE AllPairTurns(_, _, _, _)
AllPairTurns(policy, rs, list, k) ==
    IF k > Len(list) * Len(list) THEN <<>>
    ELSE PairTurns(policy, rs, list[((k - 1) \div Len(list)) + 1],
                   list[((k - 1) % Len(list)) + 1])
             \o AllPairTurns(policy, rs, list, k + 1)

generate_vehicle_turns_General(policy, inter, rs) ==
    AllPairTurns(policy, rs, inter.roads, 1)

\* TurnPolicy::generate_vehicle_turns
generate_vehicle_turns(policy, inter, rs) ==
    CASE Len(inter.roads) = 1 ->
            zip_on_same_length(
                filter_vehicles(rs, incoming_lanes_to(rs, inter.roads[1])),
                filter_vehicles(rs, outgoing_lanes_from(rs, inter.roads[1])))
      [] Len(inter.roads) = 2 ->
            zip_on_same_length(
                filter_vehicles(rs, incoming_lanes_to(rs, inter.roads[1])),
                filter_vehicles(rs, outgoing_lanes_from(rs, inter.roads[2])))
            \o zip_on_same_length(
                filter_vehicles(rs, incoming_lanes_to(rs, inter.roads[2])),
                filter_vehicles(rs, outgoing_lanes_from(rs, inter.roads[1])))
      [] OTHER -> AllPairTurns(policy, rs, inter.roads, 1)

\* Road::sidewalks: the arriving and the leaving walking lane, if both exist
sidewalks(rs, r) ==
    LET inc == SelectSeq(incoming_lanes_to(rs, r), LAMBDA l : lane_kind(rs, l) = "Walking")
        out == SelectSeq(outgoing_lanes_from(rs, r), LAMBDA l : lane_kind(rs, l) = "Walking")
    IN  IF inc # <<>> /\ out # <<>> THEN << <<inc[1], out[1]>> >> ELSE <<>>

\* the filter_map over the road list chained with its first road
RECURSIVE SidewalkPairs(_, _)
SidewalkPairs(rs, list) ==
    IF list = <<>> THEN <<>>
    ELSE sidewalks(rs, Head(list)) \o SidewalkPairs(rs, Tail(list))

\* the body of the windows(2) loop, from window k on
RECURSIVE WindowTurns(_, _, _)
WindowTurns(pairs, n_roads, k) ==
    IF k + 1 > Len(pairs) THEN <<>>
    ELSE LET incoming == pairs[k][1]
             outgoing_in == pairs[k][2]
             outgoing == pairs[k + 1][2]
         IN  <<TurnEntry(incoming, outgoing, "WalkingCorner")>>
                 \o (IF n_roads > 2
                     THEN <<TurnEntry(outgoing_in, incoming, "Crosswalk")>>
                     ELSE <<>>)
                 \o WindowTurns(pairs, n_roads, k + 1)

\* TurnPolicy::generate_walking_turns
generate_walking_turns(policy, inter, rs) ==
    WindowTurns(SidewalkPairs(rs, inter.roads \o SubSeq(inter.roads, 1, Min(1, Len(inter.roads)))),
                Len(inter.roads), 1)

\* TurnPolicy::generate_turns
generate_turns(policy, inter, rs) ==
    generate_vehicle_turns(policy, inter, rs) \o generate_walking_turns(policy, inter, rs)

update_turns_VehiclesOnly(inter, rs) ==
    [inter EXCEPT !.turns = Range(generate_vehicle_turns(inter.turn_policy, inter, rs))]

update_turns_Extended(inter, rs) ==
    [inter EXCEPT !.turns = inter.turns \cup Range(generate_turns(inter.turn_policy, inter, rs))]

\* Intersection::update_turns: the BTreeSet collected from the generated list
update_turns(inter, rs) ==
    [inter EXCEPT !.turns = Range(generate_turns(inter.turn_policy, inter, rs))]

\* a call of update_turns; it indexes the store with every listed id and
\* would panic on a dead one
UpdateTurns ==
    /\ ~HasDead(intersection, roads)
    /\ intersection' = update_turns(intersection, roads)
    /\ op' = Did("update_turns", 0)
    /\ UNCHANGED <<roads, guivars>>

NextTurns ==
    \/ \E id \in RoadIds, v \in InitialInterfaces : InsertRoad(id, v)
    \/ \E id \in RoadIds : AddRoad(id)
    \/ \E id \in RoadIds : RemoveRoadCall(id)
    \/ UpdateInterfaceRadius
    \/ UpdateTurns

SpecTurns == InitNet /\ [][NextTurns]_vars

\* every turn starts and ends on a lane of a listed road
TurnsOnListed(inter) ==
    \A t \in inter.turns :
        /\ t.id.src.road \in Range(inter.roads)
        /\ t.id.dst.road \in Range(inter.roads)

(* C14: in every state reached by add_road, remove_road,                   *)
(* update_interface_radius and update_turns, every turn of the             *)
(* intersection has its source and destination lanes on listed roads.      *)
C14_TurnsOnListedRoads == TurnsOnListed(intersection)

KeepsTurnsOnListed ==
    TurnsOnListed(intersection) /\ op'.fn # "remove_road" => TurnsOnListed(intersection')

(* C14, as the code has it: the turns lie on listed roads in the state     *)
(* update_turns leaves, and add_road and update_interface_radius keep that;*)
(* remove_road leaves the removed road's turns in the set until the next   *)
(* update_turns.                                                           *)
C14_TurnsOnListedAfterUpdate ==
    /\ [](op.fn = "update_turns" => TurnsOnListed(intersection))
    /\ [][KeepsTurnsOnListed]_vars

\* update_turns has derived the turns of three or more listed roads while
\* a road of the store is not listed
C14_Witness ==
    /\ op.fn = "update_turns"
    /\ Len(intersection.roads) >= 3
    /\ \E t \in intersection.turns : t.kind = "Crosswalk"
    /\ \E t \in intersection.turns : t.kind = "Normal" /\ t.id.src.road # t.id.dst.road
    /\ \E id \in RoadIds : contains_key(roads, id) /\ id \notin Range(intersection.roads)

-----------------------------------------------------------------------------
\* rb.radius * 1.1 + 5.0 for the configured roundabout
RoundaboutFloor(inter) == FromTenths(inter.turn_policy.roundabout * 11 + 50)

AllAtLeast(rs, list, v) ==
    \A k \in 1 .. Len(list) : ValLe(v, rs[list[k]].interface)

(* C21: with a roundabout configured, update_interface_radius leaves every *)
(* incident road with an interface of at least radius * 1.1 + 5, for any   *)
(* number of incident roads.                                               *)
C21_RoundaboutFloorAnyCount ==
    JustUpdated /\ intersection.turn_policy.roundabout # 0 =>
        AllAtLeast(roads, intersection.roads, RoundaboutFloor(intersection))

(* C21, as the code has it: the floor applies when two or more roads are   *)
(* listed; a single road keeps max(width * 0.8, 9.0), roundabout or not.   *)
C21_RoundaboutFloorFromTwo ==
    JustUpdated /\ intersection.turn_policy.roundabout # 0 =>
        /\ Len(intersection.roads) >= 2 =>
               AllAtLeast(roads, intersection.roads, RoundaboutFloor(intersection))
        /\ Len(intersection.roads) = 1 =>
               roads[intersection.roads[1]].interface =
                   empty_interface(roads[intersection.roads[1]].width)

\* the roundabout pass has raised a road of a roundabout of two or more
\* roads to exactly the floor
C21_Witness ==
    /\ JustUpdated
    /\ intersection.turn_policy.roundabout # 0
    /\ Len(intersection.roads) >= 2
    /\ \E k \in 1 .. Len(intersection.roads) :
          roads[intersection.roads[k]].interface = RoundaboutFloor(intersection)

-----------------------------------------------------------------------------
(* Single calls of generate_turns *)

\* a hand-made road of width 40, a default road, a two-lane road and a
\* one-way lane, at right angles
HandMadeRoads ==
    << Planned(East, 40, 80), Planned(North, 32, 80),
       Planned(West, 48, 80), Planned(South, 8, 80) >>

PolicyTables == {MixedRoads, CrossRoads(32), HandMadeRoads}

MaxListed == 4

\* a call of add_road with a road that is already in the list
AddRoadAgain(id) ==
    /\ contains_key(roads, id)
    /\ id \in Range(intersection.roads)
    /\ Len(intersection.roads) < MaxListed
    /\ intersection' = add_road(intersection, roads, id)
    /\ op' = Did("add_road", 0)
    /\ UNCHANGED <<roads, guivars>>

\* the flags of the turn policy are edited
SetPolicy(back, left) ==
    /\ <<back, left>> # <<intersection.turn_policy.back_turns,
                          intersection.turn_policy.left_turns>>
    /\ intersection' = [intersection EXCEPT !.turn_policy.back_turns = back,
                                            !.turn_policy.left_turns = left]
    /\ op' = Did("set_policy", 0)
    /\ UNCHANGED <<roads, guivars>>

\* a call of generate_turns: it changes nothing, and indexes the store
\* with every listed id, so it would panic on a dead one
GenerateTurns ==
    /\ ~HasDead(intersection, roads)
    /\ op' = Did("generate_turns", 0)
    /\ UNCHANGED <<intersection, roads, guivars>>

\* the list that call returns
Generated == generate_turns(intersection.turn_policy, intersection, roads)

JustGenerated == op.fn = "generate_turns"

InitPolicy ==
    /\ build_state = Hover
    /\ height_offset = 0
    /\ map = InitMap
    /\ commands = <<>>
    /\ received = <<>>
    /\ pc = "gui"
    /\ pushed = <<>>
    /\ applied = <<>>
    /\ fr = NoFrame
    /\ call = NoCall
    /\ intersection = NewIntersection
    /\ roads \in PolicyTables
    /\ op = NoOp
    /\ InitSync

NextPolicy ==
    \/ \E id \in RoadIds, v \in InitialInterfaces : InsertRoad(id, v)
    \/ \E id \in RoadIds : AddRoad(id)
    \/ \E id \in RoadIds : AddRoadAgain(id)
    \/ \E id \in RoadIds : RemoveRoadCall(id)
    \/ \E back, left \in BOOLEAN : SetPolicy(back, left)
    \/ GenerateTurns

SpecPolicy == InitPolicy /\ [][NextPolicy]_vars

\* the vehicle turns of the returned list
NormalTurns == SelectSeq(Generated, LAMBDA e : e.kind = "Normal")

\* the vehicle-capable lanes arriving on and leaving by road r
VehiclesIn(r) ==
    SelectSeq(incoming_lanes_to(roads, r), LAMBDA l : vehicles(lane_kind(roads, l)))
VehiclesOut(r) ==
    SelectSeq(outgoing_lanes_from(roads, r), LAMBDA l : vehicles(lane_kind(roads, l)))

\* the pairs by index when the counts agree, every pair otherwise
ZipOrCross(incoming, outgoing) ==
    IF Len(incoming) = Len(outgoing)
    THEN {TurnEntry(incoming[k], outgoing[k], "Normal") : k \in 1 .. Len(incoming)}
    ELSE {TurnEntry(a, b, "Normal") : a \in Range(incoming), b \in Range(outgoing)}

(* C22: for one listed road with I arriving and O leaving vehicle lanes,   *)
(* generate_turns returns as vehicle turns exactly the I pairs by index    *)
(* when I = O and exactly the I * O pairs of the cross product otherwise.  *)
C22_DeadEndZipOrCross ==
    JustGenerated /\ Len(intersection.roads) = 1 =>
        LET r == intersection.roads[1]
            I == Len(VehiclesIn(r))
            O == Len(VehiclesOut(r))
        IN  /\ Range(NormalTurns) = ZipOrCross(VehiclesIn(r), VehiclesOut(r))
            /\ Len(NormalTurns) = IF I = O THEN I ELSE I * O

\* the call on a dead end of two arriving and three leaving lanes has
\* returned six vehicle turns
C22_Witness ==
    /\ JustGenerated
    /\ Len(intersection.roads) = 1
    /\ Len(VehiclesIn(intersection.roads[1])) = 2
    /\ Len(VehiclesOut(intersection.roads[1])) = 3
    /\ Len(NormalTurns) = 6

(* C23: for two listed roads A and B the vehicle turns are exactly the     *)
(* zip-or-cross of A's arriving with B's leaving lanes together with that  *)
(* of B's arriving with A's leaving lanes; none leads back onto its own    *)
(* road and none is filtered as a left turn, whatever the policy flags.    *)
C23_PassThroughBothWays ==
    /\ JustGenerated
    /\ Len(intersection.roads) = 2
    /\ intersection.roads[1] # intersection.roads[2]
    => LET A == intersection.roads[1]
           B == intersection.roads[2]
       IN  /\ Range(NormalTurns) =
                  ZipOrCross(VehiclesIn(A), VehiclesOut(B))
                      \cup ZipOrCross(VehiclesIn(B), VehiclesOut(A))
           /\ \A k \in 1 .. Len(NormalTurns) :
                  NormalTurns[k].id.src.road # NormalTurns[k].id.dst.road

\* the call on two roads, one way by index and the other way by cross
\* product, with back turns allowed and left turns forbidden
C23_Witness ==
    /\ JustGenerated
    /\ Len(intersection.roads) = 2
    /\ intersection.turn_policy.back_turns
    /\ ~intersection.turn_policy.left_turns
    /\ LET A == intersection.roads[1]
           B == intersection.roads[2]
       IN  /\ A # B
           /\ Len(VehiclesIn(A)) = 2 /\ Len(VehiclesOut(B)) = 2
           /\ Len(VehiclesIn(B)) = 2 /\ Len(VehiclesOut(A)) = 3
           /\ Len(NormalTurns) = 8

IsBackTurn(e) == e.kind = "Normal" /\ e.id.src.road = e.id.dst.road

(* C24: with three or more listed roads, a vehicle turn whose source and   *)
(* destination lanes are on the same road is returned only if back_turns   *)
(* is set; with back_turns false there is none.                            *)
C24_BackTurnsOnlyIfAllowed ==
    JustGenerated /\ Len(intersection.roads) >= 3 =>
        ((\E k \in 1 .. Len(Generated) : IsBackTurn(Generated[k]))
             => intersection.turn_policy.back_turns)

\* the call at a junction of three roads with back turns forbidden has
\* returned vehicle turns, all between different roads
C24_Witness ==
    /\ JustGenerated
    /\ Len(intersection.roads) >= 3
    /\ ~intersection.turn_policy.back_turns
    /\ Len(NormalTurns) >= 6
    /\ \A k \in 1 .. Len(Generated) : ~IsBackTurn(Generated[k])

\* the listed roads that have both sidewalks, in list order
SidewalkRoads ==
    SelectSeq(intersection.roads, LAMBDA r : sidewalks(roads, r) # <<>>)

NoRoadTwice(list) == \A i, j \in 1 .. Len(list) : list[i] = list[j] => i = j

HasTurn(kind, r1, r2) ==
    \E k \in 1 .. Len(Generated) :
        /\ Generated[k].kind = kind
        /\ Generated[k].id.src.road = r1
        /\ Generated[k].id.dst.road = r2

(* C25: taking the listed roads that have both sidewalks in list order,    *)
(* generate_walking_turns returns a WalkingCorner turn from each of them   *)
(* to the next, and from the last of them back to the first.               *)
C25_CornersWrapAround ==
    JustGenerated /\ NoRoadTwice(intersection.roads) /\ Len(SidewalkRoads) >= 2 =>
        \A k \in 1 .. Len(SidewalkRoads) :
            HasTurn("WalkingCorner", SidewalkRoads[k],
                    SidewalkRoads[(k % Len(SidewalkRoads)) + 1])

(* C26: generate_walking_turns returns Crosswalk turns only with more than *)
(* two listed roads; then every listed road with sidewalks gets one        *)
(* Crosswalk between its own two sidewalks; with one or two roads none.    *)
C26_CrosswalkPerRoad ==
    JustGenerated /\ NoRoadTwice(intersection.roads) =>
        IF Len(intersection.roads) > 2
        THEN \A k \in 1 .. Len(SidewalkRoads) :
                 HasTurn("Crosswalk", SidewalkRoads[k], SidewalkRoads[k])
        ELSE \A k \in 1 .. Len(Generated) : Generated[k].kind # "Crosswalk"

NoIdentityTwice(list) ==
    \A i, j \in 1 .. Len(list) : list[i].id = list[j].id => i = j

C28_TurnsAreDerived ==
    op.fn = "update_turns" =>
        intersection.turns =
            {Generated[k] : k \in 1 .. Len(Generated)}

\* update_turns has left the vehicle turns and corners of two roads, and
\* no crosswalk
C28_Witness ==
    /\ op.fn = "update_turns"
    /\ Len(intersection.roads) = 2
    /\ \E t \in intersection.turns : t.kind = "WalkingCorner"
    /\ \E t \in intersection.turns : t.kind = "Normal"
    /\ \A t \in intersection.turns : t.kind # "Crosswalk"

-----------------------------------------------------------------------------
(* Single calls of LanePatternBuilder::width and build *)

MaxLanes == 13

\* LaneKind::width
LaneKindWidth(kind) ==
    CASE kind \in {"Driving", "Biking", "Bus"} -> 8
      [] kind = "Parking" -> 4
      [] kind = "Construction" -> 4
      [] kind = "Walking" -> 4

\* LanePatternBuilder::width
builder_width(pb) ==
    (IF pb.sidewalks THEN LaneKindWidth("Walking") * 2 ELSE 0)
        + (IF pb.parking THEN LaneKindWidth("Parking") * 2 ELSE 0)
        + pb.n_lanes * 2 * LaneKindWidth("Driving")

\* width() and build() are called on one builder
CallWidth(pb) ==
    /\ call' = [fn |-> "width", pb |-> pb, res |-> builder_width(pb), pat |-> build(pb)]
    /\ UNCHANGED <<build_state, height_offset, map, commands, received, pc,
                   pushed, applied, fr, netvars>>

NextPattern ==
    \E n \in 1 .. MaxLanes, sw, pk, ow \in BOOLEAN :
        CallWidth([n_lanes |-> n, sidewalks |-> sw, parking |-> pk, one_way |-> ow])

SpecPattern == Init /\ [][NextPattern]_vars

RECURSIVE SumOfWidths(_)
SumOfWidths(kinds) ==
    IF kinds = <<>> THEN 0
    ELSE LaneKindWidth(Head(kinds)) + SumOfWidths(Tail(kinds))

(* C29: for every builder (n_lanes >= 1, any sidewalks, parking, one_way), *)
(* width() is the sum of LaneKind::width over the forward and backward     *)
(* lanes of build().                                                       *)
C29_WidthIsSumOfLanes ==
    call.fn = "width" =>
        call.res = SumOfWidths(call.pat.lanes_forward)
                       + SumOfWidths(call.pat.lanes_backward)

-----------------------------------------------------------------------------
\* the largest of the default of the road at position k, the roundabout
\* floor when the intersection is a roundabout, and the pairwise distances
\* to the roads before and after it in the list
ExpectedInterface(inter, rs, k) ==
    LET list == inter.roads
        n == Len(list)
        default == empty_interface(rs[list[k]].width)
        floored == IF inter.turn_policy.roundabout # 0 /\ n > 1
                   THEN ValMax(default, RoundaboutFloor(inter))
                   ELSE default
    IN  IF n = 1 THEN floored
        ELSE ValMax(floored,
                    ValMax(PairMinDist(rs, list, ((k + n - 2) % n) + 1),
                           PairMinDist(rs, list, k)))

(* C30: the interface update_interface_radius leaves on each listed road   *)
(* is a function of widths, directions and roundabout alone: the largest   *)
(* of max(width * 0.8, 9.0), the roundabout floor if the intersection is a *)
(* roundabout, and the pairwise distances to its predecessor and successor;*)
(* so no stored value matters and a second call changes nothing.           *)
C30_InterfaceIsDerived ==
    JustUpdated =>
        \A k \in 1 .. Len(intersection.roads) :
            roads[intersection.roads[k]].interface =
                ExpectedInterface(intersection, roads, k)

\* a roundabout of three or more roads has been updated: one road is left
\* at the floor, another above it at a pairwise distance
C30_Witness ==
    /\ JustUpdated
    /\ Len(intersection.roads) >= 3
    /\ intersection.turn_policy.roundabout # 0
    /\ \E k \in 1 .. Len(intersection.roads) :
          roads[intersection.roads[k]].interface = RoundaboutFloor(intersection)
    /\ \E k \in 1 .. Len(intersection.roads) :
          /\ ValLt(RoundaboutFloor(intersection), roads[intersection.roads[k]].interface)
          /\ ValLt(empty_interface(roads[intersection.roads[k]].width),
                   roads[intersection.roads[k]].interface)

-----------------------------------------------------------------------------
\* the ordered road pairs the loop does not skip
Permitted(r1, r2) == r1 # r2 \/ intersection.turn_policy.back_turns

IsGenerated(gen, a, b) == TurnEntry(a, b, "Normal") \in gen

(* C31: with three or more listed roads, for every permitted ordered road  *)
(* pair and every arriving vehicle lane and leaving vehicle lane of it: a  *)
(* turn is returned always when left_turns is set, and otherwise exactly   *)
(* when the arriving lane's right-hand perpendicular and the leaving       *)
(* lane's direction have a dot product of at least -0.3.                   *)
C31_LeftTurnFilter ==
    JustGenerated /\ Len(intersection.roads) >= 3 =>
        LET gen == Range(Generated)
        IN  \A r1, r2 \in Range(intersection.roads) :
                Permitted(r1, r2) =>
                    \A a \in Range(VehiclesIn(r1)), b \in Range(VehiclesOut(r2)) :
                        IsGenerated(gen, a, b) <=>
                            \/ intersection.turn_policy.left_turns
                            \/ NotLeft(get_orientation_vec(roads, a),
                                       get_orientation_vec(roads, b))

\* the call at a junction with left turns forbidden has returned the turn
\* of one lane pair and dropped that of another
C31_Witness ==
    /\ JustGenerated
    /\ Len(intersection.roads) >= 3
    /\ ~intersection.turn_policy.left_turns
    /\ LET gen == Range(Generated)
       IN  /\ \E r1, r2 \in Range(intersection.roads) :
                 /\ r1 # r2
                 /\ \E a \in Range(VehiclesIn(r1)), b \in Range(VehiclesOut(r2)) :
                       ~IsGenerated(gen, a, b)
           /\ \E r1, r2 \in Range(intersection.roads) :
                 /\ r1 # r2
                 /\ \E a \in Range(VehiclesIn(r1)), b \in Range(VehiclesOut(r2)) :
                       IsGenerated(gen, a, b)

(* C36: every Normal turn generate_turns returns, for any number of listed *)
(* roads and any flags, starts on an arriving lane and ends on a leaving   *)
(* lane of a listed road, both of a vehicle-capable kind.                  *)
C36_NormalTurnsOnVehicleLanes ==
    JustGenerated =>
        LET normal == Range(NormalTurns)
        IN  \A t \in normal :
                /\ t.id.src.road \in Range(intersection.roads)
                /\ t.id.dst.road \in Range(intersection.roads)
                /\ t.id.src \in Range(incoming_lanes_to(roads, t.id.src.road))
                /\ t.id.dst \in Range(outgoing_lanes_from(roads, t.id.dst.road))
                /\ vehicles(lane_kind(roads, t.id.src))
                /\ vehicles(lane_kind(roads, t.id.dst))
                /\ lane_kind(roads, t.id.src) \notin {"Walking", "Parking", "Construction"}
                /\ lane_kind(roads, t.id.dst) \notin {"Walking", "Parking", "Construction"}

\* the call on two roads that also have parking lanes and sidewalks has
\* returned vehicle turns
C36_Witness ==
    /\ JustGenerated
    /\ Len(intersection.roads) = 2
    /\ \A k \in 1 .. 2 :
          \E l \in Range(incoming_lanes_to(roads, intersection.roads[k])) :
              lane_kind(roads, l) = "Parking"
    /\ Len(NormalTurns) >= 2

-----------------------------------------------------------------------------
(* The preview of a road that is not committed yet *)

\* a narrow road facing a wide one, between two roads of medium width
UnevenCross ==
    << Planned(East, 8, 80), Planned(North, 16, 80),
       Planned(West, 48, 80), Planned(South, 16, 80) >>

PreviewTables == {MixedRoads, UnevenCross}

\* the loop of interface_at over the first k listed roads; a road missing
\* from the store is skipped by unwrap_cont!
RECURSIVE PreviewPass_CountMissing(_, _, _, _, _)
PreviewPass_CountMissing(inter, rs, width, dir, k) ==
    IF k = 0 THEN empty_interface(width)
    ELSE LET r1_id == inter.roads[k]
             rest == PreviewPass_CountMissing(inter, rs, width, dir, k - 1)
         IN  ValMax(rest, interface_calc(rs[r1_id].width, width,
                                         road_dir_from(rs, r1_id), dir))

RECURSIVE PreviewPass(_, _, _, _, _)
PreviewPass(inter, rs, width, dir, k) ==
    IF k = 0 THEN empty_interface(width)
    ELSE LET r1_id == inter.roads[k]
             rest == PreviewPass(inter, rs, width, dir, k - 1)
         IN  IF ~contains_key(rs, r1_id) THEN rest
             ELSE ValMax(rest, interface_calc(rs[r1_id].width, width,
                                              road_dir_from(rs, r1_id), dir))

interface_at_FloorOnly(inter, rs, width, dir) == empty_interface(width)

\* Intersection::interface_at
interface_at(inter, rs, width, dir) ==
    PreviewPass(inter, rs, width, dir, Len(inter.roads))

\* a call of interface_at with the width and the direction of road id of
\* the table, whether that road is built, listed, removed or only planned;
\* &self and &Roads are shared borrows
InterfaceAt(id) ==
    /\ op' = Did("interface_at", id)
    /\ UNCHANGED <<intersection, roads, guivars>>

InitPreview ==
    /\ build_state = Hover
    /\ height_offset = 0
    /\ map = InitMap
    /\ commands = <<>>
    /\ received = <<>>
    /\ pc = "gui"
    /\ pushed = <<>>
    /\ applied = <<>>
    /\ fr = NoFrame
    /\ call = NoCall
    /\ intersection = NewIntersection
    /\ roads \in PreviewTables
    /\ op = NoOp
    /\ InitSync

NextPreview ==
    \/ \E id \in RoadIds, v \in InitialInterfaces : InsertRoad(id, v)
    \/ \E id \in RoadIds : StoreRemove(id)
    \/ \E id \in RoadIds : AddRoad(id)
    \/ \E id \in RoadIds : RemoveRoadCall(id)
    \/ UpdateInterfaceRadius
    \/ \E r \in RoundaboutRadii : SetRoundabout(r)
    \/ \E id \in RoadIds : InterfaceAt(id)

SpecPreview == InitPreview /\ [][NextPreview]_vars

JustPreviewed == op.fn = "interface_at"

\* the value the last call of interface_at returned
Previewed ==
    interface_at(intersection, roads, roads[op.id].width, roads[op.id].dir)

\* the listed roads that are in the store
ListedPresent == {r \in Range(intersection.roads) : contains_key(roads, r)}

\* the pairwise minDist of the proposed road against listed road r
ProposedMinDist(r) ==
    interface_calc(roads[r].width, roads[op.id].width,
                   road_dir_from(roads, r), roads[op.id].dir)

(* C32: interface_at changes neither the intersection nor any road, and    *)
(* what it returns is the largest of max(width * 0.8, 9.0) and the         *)
(* pairwise minDist of the proposed road against every listed road that is *)
(* in the store; listed roads missing from the store do not count, and on  *)
(* an empty list the result is max(width * 0.8, 9.0).                      *)
C32_PreviewIsMaximum ==
    /\ [](JustPreviewed =>
            LET candidates == {empty_interface(roads[op.id].width)}
                                  \cup {ProposedMinDist(r) : r \in ListedPresent}
            IN  /\ Previewed \in candidates
                /\ \A c \in candidates : ValLe(c, Previewed)
                /\ (intersection.roads = <<>> =>
                        Previewed = empty_interface(roads[op.id].width)))
    /\ [][op'.fn = "interface_at" =>
            intersection' = intersection /\ roads' = roads]_vars

\* a preview on a list that names a road missing from the store whose
\* minDist would have been the largest, and a road in the store whose
\* minDist is above the floor
C32_Witness ==
    /\ JustPreviewed
    /\ \E r \in Range(intersection.roads) :
          /\ ~contains_key(roads, r)
          /\ ValLt(Previewed, ProposedMinDist(r))
    /\ ValLt(empty_interface(roads[op.id].width), Previewed)

\* the road store once the proposed road has entered it, and what
\* add_road followed by update_interface_radius then leave
StoredProposal == [roads EXCEPT ![op.id].state = "present"]
AfterCommit ==
    update_interface_radius(add_road(intersection, StoredProposal, op.id), StoredProposal)

\* the proposed road can still be added: it is not listed and has not
\* been removed from the store
IsProposal == op.id \notin Range(intersection.roads) /\ roads[op.id].state # "removed"

(* C37: on an intersection whose turn policy has no roundabout, the value  *)
(* interface_at returns for a proposed width and direction is at least the *)
(* interface that update_interface_radius gives a road of that width and   *)
(* direction once the road is in the store and add_road has listed it.     *)
C37_PreviewCoversAssigned ==
    JustPreviewed /\ IsProposal /\ intersection.turn_policy.roundabout = 0 =>
        /\ op.id \in Range(AfterCommit.inter.roads)
        /\ ValLe(interface_from_end(AfterCommit.roads, op.id), Previewed)

\* a preview against three listed roads where a road that will not be
\* adjacent to the proposed one makes the preview strictly larger than the
\* interface assigned afterwards
C37_Witness ==
    /\ JustPreviewed /\ IsProposal /\ intersection.turn_policy.roundabout = 0
    /\ Cardinality(ListedPresent) = 3
    /\ ValLt(interface_from_end(AfterCommit.roads, op.id), Previewed)
    /\ ValLt(empty_interface(roads[op.id].width),
             interface_from_end(AfterCommit.roads, op.id))

-----------------------------------------------------------------------------
(* The neighbours of the intersection *)

\* the IntersectionID of the intersection
Here == "here"

\* a road of the store with its two ends; forward lanes run from src to dst
Linked(road, src, dst) == road @@ [src |-> src, dst |-> dst]

\* a one-way lane leaving, a one-way lane arriving, a default road and a
\* footpath
NeighbourRoads ==
    << Linked(Planned(East, 8, 80), Here, "east"),
       Linked(Planned(North, 8, 80), "north", Here),
       Linked(Planned(West, 32, 80), "west", Here),
       Linked(Planned(South, 4, 80), Here, "south") >>

\* Road::other_end, as a list of no or one element
other_end(rs, r, id) ==
    IF rs[r].src = id THEN <<rs[r].dst>>
    ELSE IF rs[r].dst = id THEN <<rs[r].src>>
    ELSE <<>>

\* Road::outgoing_lanes_from(id): the kinds of the lanes that leave id
outgoing_kinds_from(rs, r, id) ==
    IF rs[r].src = id THEN LanePatternOf(rs[r].width).lanes_forward
    ELSE LanePatternOf(rs[r].width).lanes_backward

\* the kinds of all the lanes of a road
all_kinds(rs, r) ==
    LanePatternOf(rs[r].width).lanes_forward \o LanePatternOf(rs[r].width).lanes_backward

\* the closure of undirected_neighbors on one listed id
UndirectedOf(rs, x) ==
    IF ~contains_key(rs, x) THEN <<>> ELSE other_end(rs, x, Here)

VehicleOf_AnyDirection(rs, x) ==
    IF ~contains_key(rs, x) THEN <<>>
    ELSE IF ~\E kind \in Range(all_kinds(rs, x)) : kind \in {"Driving", "Rail", "Bus"}
         THEN <<>>
         ELSE other_end(rs, x, Here)

\* the closure of vehicle_neighbours on one listed id
VehicleOf(rs, x) ==
    IF ~contains_key(rs, x) THEN <<>>
    ELSE IF ~\E kind \in Range(outgoing_kinds_from(rs, x, Here)) :
                kind \in {"Driving", "Rail", "Bus"}
         THEN <<>>
         ELSE other_end(rs, x, Here)

RECURSIVE undirected_neighbors(_, _)
undirected_neighbors(list, rs) ==
    IF list = <<>> THEN <<>>
    ELSE UndirectedOf(rs, Head(list)) \o undirected_neighbors(Tail(list), rs)

RECURSIVE vehicle_neighbours(_, _)
vehicle_neighbours(list, rs) ==
    IF list = <<>> THEN <<>>
    ELSE VehicleOf(rs, Head(list)) \o vehicle_neighbours(Tail(list), rs)

\* calls of the two iterators, run to their end
UndirectedNeighbors ==
    /\ op' = Did("undirected_neighbors", 0)
    /\ UNCHANGED <<intersection, roads, guivars>>

VehicleNeighbours ==
    /\ op' = Did("vehicle_neighbours", 0)
    /\ UNCHANGED <<intersection, roads, guivars>>

InitNeighbours ==
    /\ build_state = Hover
    /\ height_offset = 0
    /\ map = InitMap
    /\ commands = <<>>
    /\ received = <<>>
    /\ pc = "gui"
    /\ pushed = <<>>
    /\ applied = <<>>
    /\ fr = NoFrame
    /\ call = NoCall
    /\ intersection = NewIntersection
    /\ roads = NeighbourRoads
    /\ op = NoOp
    /\ InitSync

NextNeighbours ==
    \/ \E id \in RoadIds, v \in InitialInterfaces : InsertRoad(id, v)
    \/ \E id \in RoadIds : StoreRemove(id)
    \/ \E id \in RoadIds : AddRoad(id)
    \/ \E id \in RoadIds : RemoveRoadCall(id)
    \/ UndirectedNeighbors
    \/ VehicleNeighbours

SpecNeighbours == InitNeighbours /\ [][NextNeighbours]_vars

\* the other ends of the listed roads in the store that satisfy keep, in
\* the order of the list
RECURSIVE EndsWhere(_, _)
EndsWhere(list, keep) ==
    IF list = <<>> THEN <<>>
    ELSE (IF contains_key(roads, Head(list)) /\ Head(list) \in keep
          THEN other_end(roads, Head(list), Here) ELSE <<>>)
             \o EndsWhere(Tail(list), keep)

CarriesVehicles == {r \in RoadIds : \E kind \in Range(all_kinds(roads, r)) : vehicles(kind)}

VehiclesLeave ==
    {r \in RoadIds : \E kind \in Range(outgoing_kinds_from(roads, r, Here)) :
                        kind \in {"Driving", "Rail", "Bus"}}

(* C33: vehicle_neighbours yields the other end of exactly the listed roads *)
(* in the store that carry a vehicle-capable lane in either direction, and  *)
(* undirected_neighbors the other end of every listed road in the store.    *)
C33_NeighboursEitherDirection ==
    /\ op.fn = "vehicle_neighbours" =>
          vehicle_neighbours(intersection.roads, roads)
              = EndsWhere(intersection.roads, CarriesVehicles)
    /\ op.fn = "undirected_neighbors" =>
          undirected_neighbors(intersection.roads, roads)
              = EndsWhere(intersection.roads, RoadIds)

(* C33, as the code has it: vehicle_neighbours yields the other end of      *)
(* exactly the listed roads in the store that have a Driving, Rail or Bus   *)
(* lane leaving this intersection, so a one-way road that arrives is left   *)
(* out; undirected_neighbors yields the other end of every listed road in   *)
(* the store.                                                               *)
C33_NeighboursByLeavingLane ==
    /\ op.fn = "vehicle_neighbours" =>
          vehicle_neighbours(intersection.roads, roads)
              = EndsWhere(intersection.roads, VehiclesLeave)
    /\ op.fn = "undirected_neighbors" =>
          undirected_neighbors(intersection.roads, roads)
              = EndsWhere(intersection.roads, RoadIds)

\* vehicle_neighbours has run on a list of three roads in the store: a
\* one-way road that arrives, a footpath and a road it yields
C33_Witness ==
    /\ op.fn = "vehicle_neighbours"
    /\ Len(intersection.roads) = 3
    /\ ~HasDead(intersection, roads)
    /\ vehicle_neighbours(intersection.roads, roads) = <<"west">>
    /\ undirected_neighbors(intersection.roads, roads) = <<"south", "north", "west">>

-----------------------------------------------------------------------------
(* C34: after any sequence of add_road and remove_road calls, add_road on   *)
(* a road that is already listed included, the road list never names the    *)
(* same road twice.                                                         *)
C34_NoDuplicateRoads == NoRoadTwice(intersection.roads)

-----------------------------------------------------------------------------
(* The elevation keys, pressed without limit, over two sites *)

ElevationSites == {1, 2}
ElevationActs == {{}, {"UpElevation"}, {"DownElevation"},
                  {"DownElevation", "UpElevation"}, {"Close"}}

NextElevation ==
    \/ \E tool \in Tools : FrameOtherTool(tool, MaxCmds)
    \/ \E tool \in Tools, act \in ElevationActs : FrameNoCursor(tool, act, MaxCmds)
    \/ \E tool \in Tools, unproj \in ElevationSites, act \in ElevationActs :
          Frame(tool, unproj, act, MaxCmds)
    \/ Tick

SpecElevation == Init /\ [][NextElevation]_vars

\* what one frame can leave of height h: both keys, one of them or none
ElevationSteps(h) ==
    {h, Min(h + 5, 100), Max(h - 5, 0), Max(Min(h + 5, 100) - 5, 0)}

(* C35: height_offset is always a multiple of 5 from 0 to 100; a frame of   *)
(* the road-build tool that reaches the elevation keys leaves it, adds 5    *)
(* capped at 100, or subtracts 5 floored at 0; a frame with another tool    *)
(* resets it to 0; nothing else changes it.                                 *)
C35_ElevationInSteps ==
    /\ [](height_offset \in {5 * k : k \in 0 .. 20})
    /\ [][/\ pc = "gui" =>
                IF ~fr'.toolrb THEN height_offset' = 0
                ELSE IF ~fr'.ran THEN height_offset' = height_offset
                ELSE height_offset' \in ElevationSteps(height_offset)
          /\ pc # "gui" => height_offset' = height_offset]_vars

\* the offset stands at the cap after a frame of the road-build tool, the
\* tick is over, and the next frame may press UpElevation again
C35_Witness ==
    /\ height_offset = 100
    /\ pc = "gui"
    /\ build_state = Hover

-----------------------------------------------------------------------------
(* RoadGraphSynchronize: the keys I, Backspace and C and the connect tool *)

SlotSet == {Slots[k] : k \in DOMAIN Slots}
Keys == {"I", "Backspace", "C"}
Places == {"origin", "away"}

\* data.intersections.get(e): the component is there from the maintain
\* after the lazy creation until the maintain after the deletion
has_inter(w, e) == e \in SlotSet /\ w[e] \in {"alive", "killed"}

\* the entity lazy.create_entity returns next
NextSlot(w) == Slots[CHOOSE k \in DOMAIN Slots :
                        w[Slots[k]] = "unborn" /\ \A j \in 1 .. k - 1 : w[Slots[j]] # "unborn"]

\* RoadGraph::is_neigh, connect, disconnect, add_intersection, delete_inter
\* and set_intersection_position, as the system calls them
is_neigh(g, a, b) == {a, b} \in g.edges
connect(g, a, b) == [g EXCEPT !.edges = @ \cup {{a, b}}]
disconnect(g, a, b) == [g EXCEPT !.edges = @ \ {{a, b}}]
add_intersection(g, id, at) == [g EXCEPT !.nodes = @ \cup {id}, !.pos[id] = at]
delete_inter(g, id) ==
    [g EXCEPT !.nodes = @ \ {id}, !.edges = {ed \in @ : id \notin ed}]
set_intersection_position(g, id, at) == [g EXCEPT !.pos[id] = at]

GraphCall(fn, a, b, by) == [fn |-> fn, a |-> a, b |-> b, by |-> by]

\* the part of the world one run reads and writes
Snapshot ==
    [connect_state |-> connect_state, show_connect |-> show_connect,
     selected |-> selected, world |-> world, rg |-> rg, calls |-> <<>>, panic |-> FALSE]

\* the loop over the moved events
MovedLoop(st, moved) ==
    IF moved.e # NoEntity /\ has_inter(st.world, moved.e)
    THEN [st EXCEPT !.rg = set_intersection_position(@, moved.e, moved.at)]
    ELSE st

\* the key I: a new intersection at the cursor, connected to the selected
\* intersection if there is one, and selected; its entity is built lazily
Creation(st, keys, mouse) ==
    IF "I" \notin keys THEN st
    ELSE LET id == NextSlot(st.world)
             g1 == add_intersection(st.rg, id, mouse)
             x == st.selected
         IN  [st EXCEPT
                 !.rg = IF has_inter(st.world, x) THEN connect(g1, id, x) ELSE g1,
                 !.calls = IF has_inter(st.world, x)
                           THEN Append(@, GraphCall("connect", id, x, "creation")) ELSE @,
                 !.world[id] = "lazy",
                 !.selected = id]

\* the key Backspace: the selected intersection leaves the graph and its
\* entity is deleted at the next maintain
Deletion(st, keys) ==
    IF "Backspace" \in keys /\ has_inter(st.world, st.selected)
    THEN [st EXCEPT !.rg = delete_inter(@, st.selected),
                    !.world[st.selected] = "killed"]
    ELSE st

\* the key C
PressC(st, keys) ==
    IF "C" \in keys THEN [st EXCEPT !.connect_state = Unselected] ELSE st

\* RoadGraphSynchronize::deactive_connect
deactive_connect(st) ==
    [st EXCEPT !.connect_state = Inactive, !.show_connect.hide = TRUE]

ConnectionHandling_KeepFirst(st) ==
    LET x == st.selected
        y == st.connect_state.e
    IN  IF ~has_inter(st.world, x) THEN deactive_connect(st)
        ELSE IF st.connect_state.tag = "Unselected"
        THEN [st EXCEPT !.connect_state = First(x), !.show_connect.hide = FALSE]
        ELSE IF st.connect_state.tag = "First"
        THEN IF ~has_inter(st.world, y) THEN [st EXCEPT !.panic = TRUE]
             ELSE IF y # x
             THEN IF ~is_neigh(st.rg, x, y)
                  THEN [st EXCEPT !.rg = connect(@, x, y),
                            !.calls = Append(@, GraphCall("connect", x, y, "tool"))]
                  ELSE [st EXCEPT !.rg = disconnect(@, x, y),
                            !.calls = Append(@, GraphCall("disconnect", x, y, "tool"))]
             ELSE st
        ELSE st

ConnectionHandling_StayUnselected(st) ==
    LET x == st.selected
    IN  IF ~has_inter(st.world, x) /\ st.connect_state.tag # "Unselected"
        THEN deactive_connect(st)
        ELSE IF st.connect_state.tag = "Unselected" /\ has_inter(st.world, x)
        THEN [st EXCEPT !.connect_state = First(x), !.show_connect.hide = FALSE]
        ELSE st

\* the match on connect_state under the selected entity; the unwrap of the
\* component of First's entity fails when that entity has been deleted
ConnectionHandling(st) ==
    LET x == st.selected
        y == st.connect_state.e
    IN  IF ~has_inter(st.world, x) THEN deactive_connect(st)
        ELSE IF st.connect_state.tag = "Unselected"
        THEN [st EXCEPT !.connect_state = First(x), !.show_connect.hide = FALSE]
        ELSE IF st.connect_state.tag = "First"
        THEN IF ~has_inter(st.world, y) THEN [st EXCEPT !.panic = TRUE]
             ELSE IF y # x
             THEN deactive_connect(
                    IF ~is_neigh(st.rg, x, y)
                    THEN [st EXCEPT !.rg = connect(@, x, y),
                              !.calls = Append(@, GraphCall("connect", x, y, "tool"))]
                    ELSE [st EXCEPT !.rg = disconnect(@, x, y),
                              !.calls = Append(@, GraphCall("disconnect", x, y, "tool"))])
             ELSE st
        ELSE st

\* the preview line starts at the entity of First
PreviewLine(st) ==
    IF st.connect_state.tag = "First" /\ ~st.panic
    THEN [st EXCEPT !.show_connect.at = st.connect_state.e]
    ELSE st

\* what the run does before the connection handling
BeforeTool(st, keys, moved, mouse) ==
    PressC(Deletion(Creation(MovedLoop(st, moved), keys, mouse), keys), keys)

\* RoadGraphSynchronize::run
run(st, keys, moved, mouse) ==
    PreviewLine(ConnectionHandling(BeforeTool(st, keys, moved, mouse)))

MovedEvents ==
    {[e |-> NoEntity, at |-> "origin"]}
        \cup {[e |-> e, at |-> at] : e \in SlotSet, at \in Places}

\* one run of the system in the dispatch of a frame
Run(keys, moved, mouse) ==
    /\ sync.phase = "run"
    /\ "I" \in keys => \E e \in SlotSet : world[e] = "unborn"
    /\ moved.e # NoEntity => world[moved.e] = "alive" /\ rg.pos[moved.e] # moved.at
    /\ \E st \in {run(Snapshot, keys, moved, mouse)} :
          /\ connect_state' = st.connect_state
          /\ show_connect' = st.show_connect
          /\ selected' = st.selected
          /\ world' = st.world
          /\ rg' = st.rg
          /\ sync' = [phase |-> IF st.panic THEN "panic" ELSE "maintain",
                      pressed |-> keys, calls |-> st.calls]
    /\ UNCHANGED <<build_state, height_offset, map, commands, received, pc, pushed,
                   applied, fr, call, intersection, roads, op>>

\* World::maintain after the dispatch: lazy entities are built, deleted
\* entities lose their components
Maintain ==
    /\ sync.phase = "maintain"
    /\ world' = [e \in SlotSet |->
                    IF world[e] = "lazy" THEN "alive"
                    ELSE IF world[e] = "killed" THEN "dead" ELSE world[e]]
    /\ sync' = NoRun
    /\ UNCHANGED <<connect_state, show_connect, selected, rg>>
    /\ UNCHANGED <<build_state, height_offset, map, commands, received, pc, pushed,
                   applied, fr, call, intersection, roads, op>>

\* the selection system, before the run: a click on an entity or on nothing
Select(e) ==
    /\ sync.phase = "run"
    /\ e # selected
    /\ e \in SlotSet => world[e] = "alive"
    /\ selected' = e
    /\ UNCHANGED <<connect_state, show_connect, world, rg, sync>>
    /\ UNCHANGED <<build_state, height_offset, map, commands, received, pc, pushed,
                   applied, fr, call, intersection, roads, op>>

NextSync ==
    \/ \E keys \in SUBSET Keys, moved \in MovedEvents, mouse \in Places :
          Run(keys, moved, mouse)
    \/ Maintain
    \/ \E e \in SlotSet \cup {OtherEntity, NoEntity} : Select(e)

SpecSync == Init /\ [][NextSync]_vars

\* the state a completed run has left, before the maintain that follows
EndOfRun == sync.phase = "maintain"

(* C38: connect_state is never Unselected when a run of the system has     *)
(* ended, only Inactive or First; a run in which C is pressed ends in       *)
(* First exactly when the selected entity carries an intersection, and      *)
(* First then holds that entity; whenever nothing or an entity without      *)
(* intersection is selected the run ends Inactive with the preview line     *)
(* hidden.                                                                  *)
C38_NeverLeftUnselected ==
    /\ connect_state.tag \in {"Inactive", "First"}
    /\ EndOfRun =>
          /\ "C" \in sync.pressed =>
                /\ connect_state.tag = "First" <=> has_inter(world, selected)
                /\ connect_state.tag = "First" => connect_state.e = selected
          /\ ~has_inter(world, selected) =>
                connect_state = Inactive /\ show_connect.hide

\* a run in which C was pressed while the entity without intersection was
\* selected, after an earlier connection had shown the preview line
C38_Witness ==
    /\ EndOfRun
    /\ "C" \in sync.pressed
    /\ selected = OtherEntity
    /\ connect_state = Inactive
    /\ show_connect.at # NoEntity
    /\ show_connect.hide

\* the calls the connection handling of the last run made on the graph
ToolCalls == SelectSeq(sync.calls, LAMBDA cl : cl.by = "tool")

\* the graph as the connection handling of a run with these keys finds it
GraphAtTool(keys) ==
    BeforeTool(Snapshot, keys, [e |-> NoEntity, at |-> "origin"], "origin").rg

(* C39: the connection handling calls connect or disconnect at most once in *)
(* a run, and only when the run started in First(y), C was not pressed and  *)
(* the selected entity x carries an intersection and is not y; the call is  *)
(* connect when x and y are not neighbours at that point and disconnect     *)
(* when they are, its two sides differ, and the run ends Inactive.          *)
C39_ConnectOnlyFromFirst ==
    [][sync.phase = "run" /\ sync'.phase # "run" =>
          LET tool == SelectSeq(sync'.calls, LAMBDA cl : cl.by = "tool")
          IN  /\ Len(tool) <= 1
              /\ \A k \in DOMAIN tool :
                    /\ tool[k].fn \in {"connect", "disconnect"}
                    /\ connect_state.tag = "First"
                    /\ "C" \notin sync'.pressed
                    /\ tool[k].a = selected'
                    /\ has_inter(world', selected')
                    /\ tool[k].b = connect_state.e
                    /\ tool[k].a # tool[k].b
                    /\ tool[k].fn = "disconnect"
                          <=> is_neigh(GraphAtTool(sync'.pressed), tool[k].a, tool[k].b)
                    /\ connect_state' = Inactive
                    /\ show_connect'.hide]_vars

\* a run has disconnected two intersections that an earlier run connected
C39_Witness ==
    /\ EndOfRun
    /\ Len(ToolCalls) = 1
    /\ ToolCalls[1].fn = "disconnect"
    /\ connect_state = Inactive
    /\ ~is_neigh(rg, ToolCalls[1].a, ToolCalls[1].b)

====
